---- MODULE Spec2Model ----
(***************************************************************************)
(* A model of gx402: the tag-delimited codec (src/src/xml.ts), the         *)
(* streaming field extractor of callLLM (inference.ts) and the Agent       *)
(* orchestrator (src/src/types.ts).                                        *)
(*                                                                         *)
(* Text is a sequence of one-character strings.  A JavaScript value is a   *)
(* record tagged by k: "str", "num", "bool", "null", "undef", "seq",       *)
(* "map"; a mapping keeps its entries in insertion order.                  *)
(***************************************************************************)
EXTENDS Integers, Sequences, FiniteSets, TLC

VARIABLES
    \* codec: a value is encoded, the text is decoded; a tag name and what
    \* sanitizeTagName made of it, applied once and again to its own result
    cpc, cv, cxml, cdec, tname, ttags,
    \* streaming call of callLLM: the document the service answers with, its
    \* text, the characters delivered so far, the state of the extractor
    \* (fullResponse, tagStack, currentTagName, wordBuffer, insideTag) and the
    \* updates handed to streamingCallback
    spc, sdoc, sinput, spos, fullResponse, ext, updates,
    \* a second streaming call in flight at the same time, suspended at an
    \* await: its own document, position, extractor state and updates
    otherStream,
    \* Agent: whether it was constructed, its config with the arguments of
    \* the run, where the run stands, the locals of run (relevantServers and
    \* the server reached, tools, relevantTools and the tool reached,
    \* parameters, toolResults, toolInvocations), the remote calls made so
    \* far with their replies, what the run returned or threw, the validated
    \* input that field resolution writes to, and the input field reached
    agent, config, pc, relevantServers, serverIndex, tools, relevantTools,
    toolIndex, parameters, toolResults, toolInvocations, calls, runResult,
    validatedInput, fieldIndex,
    \* the events the run handed to progressCallback so far
    progress,
    \* a second run of the same Agent, suspended at an await: its own locals
    otherRun,
    \* one call of fetchWithPayment: where it stands, the call site it was
    \* made from, the solanaWallet of the configuration, the measure function
    \* it was given, retries, the responses fetch returned so far, the
    \* transactions sent so far, and the events handed to progressCallback
    fpc, site, solanaWallet, fmeasure, retries, responses, transfers, notices

codecVars == <<cpc, cv, cxml, cdec, tname, ttags>>

streamVars == <<spc, sdoc, sinput, spos, fullResponse, ext, updates, otherStream>>

agentVars == <<agent, config, pc, relevantServers, serverIndex, tools, relevantTools,
               toolIndex, parameters, toolResults, toolInvocations, calls, runResult,
               validatedInput, fieldIndex, progress, otherRun>>

payVars == <<fpc, site, solanaWallet, fmeasure, retries, responses, transfers, notices>>

vars == <<cpc, cv, cxml, cdec, tname, ttags, spc, sdoc, sinput, spos, fullResponse, ext, updates,
          otherStream, agent, config, pc, relevantServers, serverIndex, tools, relevantTools,
          toolIndex, parameters, toolResults, toolInvocations, calls, runResult,
          validatedInput, fieldIndex, progress, otherRun,
          fpc, site, solanaWallet, fmeasure, retries, responses, transfers, notices>>

----------------------------------------------------------------------------
(* Characters and text                                                     *)

Letters ==
    {"a","b","c","d","e","f","g","h","i","j","k","l","m","n","o","p","q",
     "r","s","t","u","v","w","x","y","z",
     "A","B","C","D","E","F","G","H","I","J","K","L","M","N","O","P","Q",
     "R","S","T","U","V","W","X","Y","Z"}

DigitChars == <<"0","1","2","3","4","5","6","7","8","9">>

Digits == {DigitChars[i] : i \in 1..10}

\* the whitespace of \s and of String.prototype.trim that the model's texts use
WS == {" ", "\n", "\t"}

S_item == <<"i", "t", "e", "m">>
S_array == <<"a", "r", "r", "a", "y">>
S_empty == <<"e", "m", "p", "t", "y">>
S_value == <<"v", "a", "l", "u", "e">>
S_true == <<"t", "r", "u", "e">>
S_false == <<"f", "a", "l", "s", "e">>
S_null == <<"n", "u", "l", "l">>
S_undefined == <<"u", "n", "d", "e", "f", "i", "n", "e", "d">>
S_tag_ == <<"t", "a", "g", "_">>
S_relevant_servers == <<"r", "e", "l", "e", "v", "a", "n", "t", "_", "s", "e", "r", "v", "e", "r", "s">>
S_server_names == <<"s", "e", "r", "v", "e", "r", "_", "n", "a", "m", "e", "s">>
S_selected_tools == <<"s", "e", "l", "e", "c", "t", "e", "d", "_", "t", "o", "o", "l", "s">>
S_tool_names == <<"t", "o", "o", "l", "_", "n", "a", "m", "e", "s">>
S_parameters == <<"p", "a", "r", "a", "m", "e", "t", "e", "r", "s">>
S_answer == <<"a", "n", "s", "w", "e", "r">>
S_response == <<"r", "e", "s", "p", "o", "n", "s", "e">>
S_detail == <<"d", "e", "t", "a", "i", "l">>
S_none == <<"n", "o", "n", "e">>
S_other == <<"o", "t", "h", "e", "r">>
S_selected_tool == <<"s", "e", "l", "e", "c", "t", "e", "d", "_", "t", "o", "o", "l">>
S_mcp_ == <<"m", "c", "p", ":">>
S_http == <<"h", "t", "t", "p">>
S_resolver_ == <<"r", "e", "s", "o", "l", "v", "e", "r", "_">>
S_SHOULD_be == <<" ", "S", "H", "O", "U", "L", "D", " ", "b", "e", " ">>
S_Must_be == <<"M", "u", "s", "t", " ", "b", "e", " ">>
S_either_true_or_false ==
    <<"e", "i", "t", "h", "e", "r", " ", "\"", "t", "r", "u", "e", "\"", " ", "o", "r",
      " ", "\"", "f", "a", "l", "s", "e", "\"">>
S_exactly_one_of ==
    <<"e", "x", "a", "c", "t", "l", "y", " ", "o", "n", "e", " ", "o", "f", " ", "t",
      "h", "e", "s", "e", " ", "v", "a", "l", "u", "e", "s", ":", " ">>

SetMin(S) == CHOOSE x \in S : \A y \in S : x <= y

SetMax(S) == CHOOSE x \in S : \A y \in S : x >= y

RECURSIVE Flatten(_)
Flatten(ss) == IF ss = <<>> THEN <<>> ELSE Head(ss) \o Flatten(Tail(ss))

includes(s, c) == \E i \in 1..Len(s) : s[i] = c

trim(s) ==
    LET keep == {i \in 1..Len(s) : s[i] \notin WS}
    IN  IF keep = {} THEN <<>> ELSE SubSeq(s, SetMin(keep), SetMax(keep))

DigitVal(c) == (CHOOSE i \in 1..10 : DigitChars[i] = c) - 1

RECURSIVE DigitsOf(_)
DigitsOf(n) ==
    IF n < 10 THEN <<DigitChars[n + 1]>>
    ELSE DigitsOf(n \div 10) \o <<DigitChars[(n % 10) + 1]>>

RECURSIVE DigitsValue(_)
DigitsValue(ds) ==
    IF ds = <<>> THEN 0
    ELSE 10 * DigitsValue(SubSeq(ds, 1, Len(ds) - 1)) + DigitVal(ds[Len(ds)])

AllDigits(s) == s # <<>> /\ \A i \in 1..Len(s) : s[i] \in Digits

\* the digits of a fraction without its trailing zeros
StripZeros(ds) ==
    LET nz == {i \in 1..Len(ds) : ds[i] # "0"}
    IN  IF nz = {} THEN <<>> ELSE SubSeq(ds, 1, SetMax(nz))

----------------------------------------------------------------------------
(* JavaScript values                                                       *)

Str(s) == [k |-> "str", s |-> s]

\* a finite decimal: sign, integer part, fraction digits without trailing zeros
Num(neg, ip, fp) == [k |-> "num", neg |-> neg, ip |-> ip, fp |-> fp]

Bool(b) == [k |-> "bool", b |-> b]

Null == [k |-> "null"]

Undef == [k |-> "undef"]

Arr(e) == [k |-> "seq", e |-> e]

Obj(m) == [k |-> "map", m |-> m]

Entry(key, val) == [key |-> key, val |-> val]

EmptyObj == Obj(<<>>)

\* typeof v === "object"
typeofObject(v) == v.k \in {"seq", "map", "null"}

NumToString(v) ==
    (IF v.neg THEN <<"-">> ELSE <<>>) \o DigitsOf(v.ip)
        \o (IF v.fp = <<>> THEN <<>> ELSE <<".">> \o v.fp)

\* String(v) of a value that is not a mapping or a sequence
String(v) ==
    CASE v.k = "str" -> v.s
      [] v.k = "num" -> NumToString(v)
      [] v.k = "bool" -> (IF v.b THEN S_true ELSE S_false)
      [] v.k = "null" -> S_null
      [] OTHER -> S_undefined

----------------------------------------------------------------------------
(* objToXml                                                                *)

\* the variant that prefixes every name, safe or not
sanitizeTagName_alwaysPrefixed(name) ==
    S_tag_ \o [i \in 1..Len(name) |->
                 IF name[i] \in Letters \cup Digits \cup {"_"} THEN name[i] ELSE "_"]

sanitizeTagName(name) ==
    LET r == [i \in 1..Len(name) |->
                IF name[i] \in Letters \cup Digits \cup {"_"} THEN name[i] ELSE "_"]
    IN  IF r # <<>> /\ r[1] \notin Letters THEN S_tag_ \o r ELSE r

wrapTag(tag, content) ==
    LET safeTag == sanitizeTagName(tag)
    IN  <<"<">> \o safeTag \o <<">">> \o content \o <<"<", "/">> \o safeTag \o <<">">>

\* a || b on strings: the empty string is falsy
OrElse(a, b) == IF a # <<>> THEN a ELSE b

RECURSIVE objToXml(_, _)
objToXml(obj, parentKey) ==
    IF obj.k = "seq" THEN
        wrapTag(OrElse(parentKey, S_array),
                Flatten([i \in 1..Len(obj.e) |->
                    wrapTag(S_item,
                            IF typeofObject(obj.e[i])
                            THEN objToXml(obj.e[i], <<>>)
                            ELSE String(obj.e[i]))]))
    ELSE IF obj.k = "map" THEN
        LET entries == SelectSeq(obj.m, LAMBDA en : en.val.k \notin {"null", "undef"})
        IN  IF Len(entries) = 0
            THEN wrapTag(OrElse(parentKey, S_empty), <<>>)
            ELSE LET content ==
                        Flatten([i \in 1..Len(entries) |->
                            IF typeofObject(entries[i].val)
                            THEN objToXml(entries[i].val, entries[i].key)
                            ELSE <<"<">> \o entries[i].key \o <<">">>
                                   \o String(entries[i].val)
                                   \o <<"<", "/">> \o entries[i].key \o <<">">>])
                 IN  IF parentKey # <<>> THEN wrapTag(parentKey, content) ELSE content
    ELSE wrapTag(OrElse(parentKey, S_value), String(obj))

----------------------------------------------------------------------------
(* xmlToObj                                                                *)

NoMatch == [ok |-> FALSE, name |-> <<>>, inner |-> <<>>, next |-> 0]

\* One attempt of /<([^>\s\/]+)(?:[^>]*)>(.*?)<\/\1>/gs at position i: the name
\* is the longest prefix of the tag text, free of whitespace and '/', for which
\* a closing tag of that name follows; the content runs to the first such
\* closing tag.

\* the first '>' after position i, or 0
FirstGt(s, i) ==
    LET gs == {j \in (i + 1)..Len(s) : s[j] = ">"}
    IN  IF gs = {} THEN 0 ELSE SetMin(gs)

\* the longest name [^>\s\/]+ can take in the tag text that ends before g
NameLimit(s, i, g) ==
    LET bad == {j \in (i + 1)..(g - 1) : s[j] \in WS \cup {"/"}}
    IN  IF bad = {} THEN g - 1 - i ELSE SetMin(bad) - 1 - i

\* the first closing tag after g of the name of L characters that starts after
\* i, or 0
CloseAt(s, i, g, L) ==
    LET js == {j \in (g + 1)..(Len(s) - L - 2) :
                  /\ s[j] = "<"
                  /\ s[j + 1] = "/"
                  /\ s[j + L + 2] = ">"
                  /\ SubSeq(s, j + 2, j + L + 1) = SubSeq(s, i + 1, i + L)}
    IN  IF js = {} THEN 0 ELSE SetMin(js)

MatchOf(s, i, g, L, j) ==
    [ok |-> TRUE, name |-> SubSeq(s, i + 1, i + L), inner |-> SubSeq(s, g + 1, j - 1),
     next |-> j + L + 3]

\* backtracking over the name: the longest one, of at most L characters, that
\* has a closing tag
RECURSIVE MatchNamed(_, _, _, _)
MatchNamed(s, i, g, L) ==
    IF L < 1 THEN NoMatch
    ELSE IF CloseAt(s, i, g, L) # 0 THEN MatchOf(s, i, g, L, CloseAt(s, i, g, L))
    ELSE MatchNamed(s, i, g, L - 1)

MatchFrom(s, i, g) ==
    IF g = 0 THEN NoMatch ELSE MatchNamed(s, i, g, NameLimit(s, i, g))

MatchAt(s, i) ==
    IF s[i] # "<" THEN NoMatch ELSE MatchFrom(s, i, FirstGt(s, i))

\* tagRegex.exec(content) with lastIndex = from - 1
RECURSIVE NextMatch(_, _)
NextMatch(s, from) ==
    IF from > Len(s) THEN NoMatch
    ELSE IF MatchAt(s, from).ok THEN MatchAt(s, from)
    ELSE NextMatch(s, from + 1)

\* the scalar a tag content without '<' decodes to
classify(t) ==
    LET dots == {i \in 1..Len(t) : t[i] = "."}
    IN  IF t = S_true THEN Bool(TRUE)
        ELSE IF t = S_false THEN Bool(FALSE)
        ELSE IF AllDigits(t) THEN Num(FALSE, DigitsValue(t), <<>>)
        ELSE IF /\ Cardinality(dots) = 1
                /\ AllDigits(SubSeq(t, 1, SetMin(dots) - 1))
                /\ AllDigits(SubSeq(t, SetMin(dots) + 1, Len(t)))
             THEN Num(FALSE, DigitsValue(SubSeq(t, 1, SetMin(dots) - 1)),
                      StripZeros(SubSeq(t, SetMin(dots) + 1, Len(t))))
        ELSE Str(t)

\* result[tagName] = child, a second occurrence turning the slot into a sequence
accumulate(result, tagName, child) ==
    LET at == {i \in 1..Len(result) : result[i].key = tagName}
    IN  IF at = {} THEN Append(result, Entry(tagName, child))
        ELSE LET i == SetMin(at)
                 old == result[i].val
             IN  [result EXCEPT ![i].val =
                    IF old.k = "seq" THEN Arr(Append(old.e, child))
                    ELSE Arr(<<old, child>>)]

RECURSIVE parseElement(_)
RECURSIVE parseMatches(_, _, _)

\* the child a tag content decodes to
childOf(tagContent) ==
    IF includes(trim(tagContent), "<") THEN parseElement(tagContent)
    ELSE classify(trim(tagContent))

\* the body of the while loop for the match m
parseMatch(content, m, result) ==
    IF ~m.ok THEN result
    ELSE parseMatches(content, m.next, accumulate(result, m.name, childOf(m.inner)))

parseMatches(content, from, result) == parseMatch(content, NextMatch(content, from), result)

\* the variant that keeps a sole 'item' key as a mapping
unwrapItems_keepItem(content, result) ==
    IF result = <<>> THEN Str(content) ELSE Obj(result)

\* the variant that returns the empty mapping when no tag pair matched
unwrapItems_noRawText(content, result) ==
    IF Len(result) = 1 /\ result[1].key = S_item
    THEN (IF result[1].val.k = "seq" THEN result[1].val ELSE Arr(<<result[1].val>>))
    ELSE Obj(result)

\* what parseElement returns for the entries the loop collected
unwrapItems(content, result) ==
    IF result = <<>> THEN Str(content)
    ELSE IF Len(result) = 1 /\ result[1].key = S_item
        THEN (IF result[1].val.k = "seq" THEN result[1].val ELSE Arr(<<result[1].val>>))
    ELSE Obj(result)

parseTrimmed(content) ==
    IF ~includes(content, "<") THEN Str(content)
    ELSE unwrapItems(content, parseMatches(content, 1, <<>>))

parseElement(content) == parseTrimmed(trim(content))

xmlToObj(xmlContent) == parseElement(xmlContent)

----------------------------------------------------------------------------
(* The codec as a state machine: a value is given, encoded by objToXml     *)
(* with no tag name, and the text is decoded by xmlToObj.                  *)

MaxDepth == 2

K_a == <<"a">>

K_b == <<"b">>

K_c == <<"c">>

CodecKeys == {K_a, K_b}

One == Num(FALSE, 1, <<>>)

Two == Num(FALSE, 2, <<>>)

Three == Num(FALSE, 3, <<>>)

CodecScalars ==
    {Str(<<"x">>), Str(<<"x", " ", "y">>), Str(S_true),
     One, Num(TRUE, 1, <<>>), Num(FALSE, 1, <<"5">>), Bool(TRUE), Null}

\* the values of the spec's examples: [1,2,3] and {a:{b:"x", c:[1,2]}}
CodecExamples ==
    {Arr(<<One, Two, Three>>),
     Obj(<<Entry(K_a, Obj(<<Entry(K_b, Str(<<"x">>)), Entry(K_c, Arr(<<One, Two>>))>>))>>)}

RECURSIVE CodecValuesUpTo(_)
CodecValuesUpTo(d) ==
    IF d = 0 THEN CodecScalars
    ELSE LET V == CodecValuesUpTo(d - 1)
         IN  V \cup {Arr(<<>>), EmptyObj}
               \cup {Arr(<<x>>) : x \in V}
               \cup {Arr(<<s, t>>) : s \in CodecScalars, t \in CodecScalars}
               \cup {Obj(<<Entry(key, x)>>) : key \in CodecKeys, x \in V}
               \cup {Obj(<<Entry(K_a, s), Entry(K_b, x)>>) : s \in CodecScalars, x \in V}

\* keys that are not safe tag names: a space, a leading digit, a hyphen
UnsafeKeys == {<<"a", " ", "b">>, <<"1", "a">>, <<"a", "-", "b">>}

\* values with unsafe keys, and sequences and mappings that hold undefined
CodecOddValues ==
    {Obj(<<Entry(key, x)>>) :
        key \in UnsafeKeys,
        x \in {Str(<<"x">>), One, Arr(<<One>>), EmptyObj, Obj(<<Entry(K_a, Str(<<"x">>))>>)}}
      \cup {Obj(<<Entry(K_a, Obj(<<Entry(key, Bool(TRUE))>>))>>) : key \in UnsafeKeys}
      \cup {Arr(<<Undef>>), Arr(<<One, Undef>>), Arr(<<Null, One>>),
            Obj(<<Entry(K_a, Undef)>>), Obj(<<Entry(K_a, Undef), Entry(K_b, One)>>),
            Obj(<<Entry(K_a, Obj(<<Entry(K_a, Null), Entry(K_b, Str(<<"x">>))>>))>>),
            Obj(<<Entry(K_a, Arr(<<Null>>))>>)}

CodecValues == CodecValuesUpTo(MaxDepth) \cup CodecExamples \cup CodecOddValues

\* the tag names sanitized have at most this many characters
MaxName == 3

NameChars == {"a", "Z", "1", "_", "-", " ", "<"}

RECURSIVE NamesUpTo(_)
NamesUpTo(n) ==
    IF n = 0 THEN {<<>>}
    ELSE NamesUpTo(n - 1) \cup {Append(r, c) : r \in NamesUpTo(n - 1), c \in NameChars}

TagNames == NamesUpTo(MaxName)

CodecIdle ==
    /\ cpc = "off"
    /\ cv = Null
    /\ cxml = <<>>
    /\ cdec = Null
    /\ tname = <<>>
    /\ ttags = <<>>

\* no second streaming call
NoStream ==
    [spc |-> "off", sdoc |-> <<>>, sinput |-> <<>>, spos |-> 0, fullResponse |-> <<>>,
     ext |-> [tagStack |-> <<>>, currentTagName |-> <<>>, wordBuffer |-> <<>>,
              insideTag |-> FALSE],
     updates |-> <<>>]

StreamIdle ==
    /\ spc = "off"
    /\ sdoc = <<>>
    /\ sinput = <<>>
    /\ spos = 0
    /\ fullResponse = <<>>
    /\ ext = [tagStack |-> <<>>, currentTagName |-> <<>>, wordBuffer |-> <<>>,
              insideTag |-> FALSE]
    /\ updates = <<>>
    /\ otherStream = NoStream

\* no second run
NoRun ==
    [pc |-> "off", relevantServers |-> <<>>, serverIndex |-> 0, tools |-> <<>>,
     relevantTools |-> <<>>, toolIndex |-> 0, parameters |-> Null, toolResults |-> EmptyObj,
     toolInvocations |-> <<>>, calls |-> <<>>,
     runResult |-> [err |-> "", null |-> TRUE, val |-> Null], validatedInput |-> Null,
     fieldIndex |-> 0, progress |-> <<>>]

AgentIdle ==
    /\ agent = "off"
    /\ config = [outputFormat |-> [t |-> "ZodObject", shape |-> <<>>], servers |-> <<>>,
                 measureFn |-> "measure", streaming |-> FALSE, input |-> EmptyObj,
                 inputFormat |-> [t |-> "ZodObject", shape |-> <<>>]]
    /\ pc = "off"
    /\ relevantServers = <<>>
    /\ serverIndex = 0
    /\ tools = <<>>
    /\ relevantTools = <<>>
    /\ toolIndex = 0
    /\ parameters = Null
    /\ toolResults = EmptyObj
    /\ toolInvocations = <<>>
    /\ calls = <<>>
    /\ runResult = [err |-> "", null |-> TRUE, val |-> Null]
    /\ validatedInput = Null
    /\ fieldIndex = 0
    /\ progress = <<>>
    /\ otherRun = NoRun

PaymentIdle ==
    /\ fpc = "off"
    /\ site = "none"
    /\ solanaWallet = "none"
    /\ fmeasure = "measure"
    /\ retries = 0
    /\ responses = <<>>
    /\ transfers = <<>>
    /\ notices = <<>>

InitCodec ==
    /\ cpc = "given"
    /\ cv \in CodecValues
    /\ cxml = <<>>
    /\ cdec = Null
    /\ tname = <<>>
    /\ ttags = <<>>
    /\ StreamIdle
    /\ AgentIdle
    /\ PaymentIdle

Encode ==
    /\ cpc = "given"
    /\ cxml' = objToXml(cv, <<>>)
    /\ cpc' = "encoded"
    /\ UNCHANGED <<cv, cdec, tname, ttags>>
    /\ UNCHANGED streamVars
    /\ UNCHANGED agentVars
    /\ UNCHANGED payVars

Decode ==
    /\ cpc = "encoded"
    /\ cdec' = xmlToObj(cxml)
    /\ cpc' = "decoded"
    /\ UNCHANGED <<cv, cxml, tname, ttags>>
    /\ UNCHANGED streamVars
    /\ UNCHANGED agentVars
    /\ UNCHANGED payVars

NextCodec == Encode \/ Decode

SpecCodec == InitCodec /\ [][NextCodec]_vars

InitSanitize ==
    /\ cpc = "off"
    /\ cv = Null
    /\ cxml = <<>>
    /\ cdec = Null
    /\ tname \in TagNames
    /\ ttags = <<>>
    /\ StreamIdle
    /\ AgentIdle
    /\ PaymentIdle

\* sanitizeTagName(name), then sanitizeTagName of the tag it returned
Sanitize ==
    /\ cpc = "off"
    /\ Len(ttags) < 2
    /\ ttags' = Append(ttags, sanitizeTagName(IF ttags = <<>> THEN tname ELSE ttags[Len(ttags)]))
    /\ UNCHANGED <<cpc, cv, cxml, cdec, tname>>
    /\ UNCHANGED streamVars
    /\ UNCHANGED agentVars
    /\ UNCHANGED payVars

SpecSanitize == InitSanitize /\ [][Sanitize]_vars

----------------------------------------------------------------------------
(* Claims about the codec                                                  *)

IsScalar(v) == v.k \in {"str", "num", "bool"}

\* a string the round-trip contract admits: no '<', no '>', and not one that
\* reads as a boolean or numeric literal
PlainString(s) ==
    /\ ~includes(s, "<")
    /\ ~includes(s, ">")
    /\ classify(trim(s)).k = "str"

RECURSIVE InRoundTripDomain(_)
InRoundTripDomain(v) ==
    CASE v.k = "str" -> PlainString(v.s)
      [] v.k \in {"num", "bool"} -> TRUE
      [] v.k = "seq" -> \A i \in 1..Len(v.e) : InRoundTripDomain(v.e[i])
      [] v.k = "map" -> \A i \in 1..Len(v.m) : InRoundTripDomain(v.m[i].val)
      [] OTHER -> FALSE

\* C1: for every value built from nested mappings, sequences and scalars
\* (numbers included, strings free of '<' and '>' and not a boolean or numeric
\* literal), decoding the encoded value gives the value back.
C1_RoundTrip ==
    (cpc = "decoded" /\ InRoundTripDomain(cv)) => cdec = cv

\* C2: a non-empty sequence of scalars encoded at the root with no tag name
\* decodes to the bare sequence itself, not to a mapping that wraps it.
C2_ArrayUnwrap ==
    (/\ cpc = "decoded"
     /\ cv.k = "seq"
     /\ cv.e # <<>>
     /\ \A i \in 1..Len(cv.e) : cv.e[i].k = "num" /\ ~cv.e[i].neg)
        => (cdec.k = "seq" /\ cdec = cv)

----------------------------------------------------------------------------
(* The streaming extractor of callLLM                                      *)

RECURSIVE Join(_, _)
Join(ss, sep) ==
    IF ss = <<>> THEN <<>>
    ELSE IF Len(ss) = 1 THEN ss[1]
    ELSE ss[1] \o sep \o Join(Tail(ss), sep)

Update(field, value) == [stage |-> "streaming", field |-> field, value |-> value]

\* an extractor state together with the updates one call emits
WithOut(e) ==
    [tagStack |-> e.tagStack, currentTagName |-> e.currentTagName,
     wordBuffer |-> e.wordBuffer, insideTag |-> e.insideTag, out |-> <<>>]

\* the variant in which the pending word does not survive the end of a chunk
ExtOf_wordLost(st) ==
    [tagStack |-> st.tagStack, currentTagName |-> st.currentTagName,
     wordBuffer |-> <<>>, insideTag |-> st.insideTag]

ExtOf(st) ==
    [tagStack |-> st.tagStack, currentTagName |-> st.currentTagName,
     wordBuffer |-> st.wordBuffer, insideTag |-> st.insideTag]

\* the variant that hands every update to the callback twice
Emit_twice(st, field, value) ==
    [st EXCEPT !.out = Append(Append(@, Update(field, value)), Update(field, value))]

Emit(st, field, value) ==
    [st EXCEPT !.out = Append(@, Update(field, value))]

startsWith(s, c) == s # <<>> /\ s[1] = c

\* the variant that swallows the whitespace character instead of emitting it
processChar_dropWhitespace(st, char) ==
    IF char = "<" THEN
        [(IF st.wordBuffer # <<>> /\ st.tagStack # <<>>
          THEN Emit(st, Join(st.tagStack, <<"_">>), st.wordBuffer) ELSE st)
            EXCEPT !.wordBuffer = <<>>, !.insideTag = TRUE, !.currentTagName = <<>>]
    ELSE IF char = ">" /\ st.insideTag THEN
        [st EXCEPT !.insideTag = FALSE,
                   !.tagStack =
                       IF startsWith(st.currentTagName, "/")
                       THEN (IF @ = <<>> THEN <<>> ELSE SubSeq(@, 1, Len(@) - 1))
                       ELSE IF trim(st.currentTagName) # <<>>
                       THEN Append(@, trim(st.currentTagName))
                       ELSE @,
                   !.currentTagName = <<>>,
                   !.wordBuffer = <<>>]
    ELSE IF st.insideTag THEN
        [st EXCEPT !.currentTagName = Append(@, char)]
    ELSE IF st.tagStack # <<>> THEN
        LET currentField == Join(st.tagStack, <<"_">>)
        IN  IF char = " " \/ char = "\n" THEN
                [(IF st.wordBuffer # <<>>
                  THEN Emit(st, currentField, st.wordBuffer) ELSE st)
                    EXCEPT !.wordBuffer = <<>>]
            ELSE [st EXCEPT !.wordBuffer = Append(@, char)]
    ELSE st

\* the variant that hands the whitespace character on together with the
\* pending word, as one update
processChar_spaceWithWord(st, char) ==
    IF char = "<" THEN
        [(IF st.wordBuffer # <<>> /\ st.tagStack # <<>>
          THEN Emit(st, Join(st.tagStack, <<"_">>), st.wordBuffer) ELSE st)
            EXCEPT !.wordBuffer = <<>>, !.insideTag = TRUE, !.currentTagName = <<>>]
    ELSE IF char = ">" /\ st.insideTag THEN
        [st EXCEPT !.insideTag = FALSE,
                   !.tagStack =
                       IF startsWith(st.currentTagName, "/")
                       THEN (IF @ = <<>> THEN <<>> ELSE SubSeq(@, 1, Len(@) - 1))
                       ELSE IF trim(st.currentTagName) # <<>>
                       THEN Append(@, trim(st.currentTagName))
                       ELSE @,
                   !.currentTagName = <<>>,
                   !.wordBuffer = <<>>]
    ELSE IF st.insideTag THEN
        [st EXCEPT !.currentTagName = Append(@, char)]
    ELSE IF st.tagStack # <<>> THEN
        IF char = " " \/ char = "\n" THEN
            [Emit(st, Join(st.tagStack, <<"_">>), Append(st.wordBuffer, char))
                EXCEPT !.wordBuffer = <<>>]
        ELSE [st EXCEPT !.wordBuffer = Append(@, char)]
    ELSE st

\* the body of the for loop of processChunk, for one character
processChar(st, char) ==
    IF char = "<" THEN
        [(IF st.wordBuffer # <<>> /\ st.tagStack # <<>>
          THEN Emit(st, Join(st.tagStack, <<"_">>), st.wordBuffer) ELSE st)
            EXCEPT !.wordBuffer = <<>>, !.insideTag = TRUE, !.currentTagName = <<>>]
    ELSE IF char = ">" /\ st.insideTag THEN
        [st EXCEPT !.insideTag = FALSE,
                   !.tagStack =
                       IF startsWith(st.currentTagName, "/")
                       THEN (IF @ = <<>> THEN <<>> ELSE SubSeq(@, 1, Len(@) - 1))
                       ELSE IF trim(st.currentTagName) # <<>>
                       THEN Append(@, trim(st.currentTagName))
                       ELSE @,
                   !.currentTagName = <<>>,
                   !.wordBuffer = <<>>]
    ELSE IF st.insideTag THEN
        [st EXCEPT !.currentTagName = Append(@, char)]
    ELSE IF st.tagStack # <<>> THEN
        LET currentField == Join(st.tagStack, <<"_">>)
        IN  IF char = " " \/ char = "\n" THEN
                [Emit(IF st.wordBuffer # <<>>
                      THEN Emit(st, currentField, st.wordBuffer) ELSE st,
                      currentField, <<char>>)
                    EXCEPT !.wordBuffer = <<>>]
            ELSE [st EXCEPT !.wordBuffer = Append(@, char)]
    ELSE st

RECURSIVE processChars(_, _)
processChars(st, chunk) ==
    IF chunk = <<>> THEN st
    ELSE processChars(processChar(st, Head(chunk)), Tail(chunk))

\* the flush in the finally block of callLLM
flushAtEnd(st) ==
    IF st.wordBuffer # <<>> /\ st.tagStack # <<>>
    THEN Emit(st, Join(st.tagStack, <<"_">>), st.wordBuffer)
    ELSE st

\* the first match of new RegExp(`<${key}>([\\s\\S]*?)</${key}>`): the text
\* between the first <key> and the first </key> after it; found = FALSE if none
RawExtract(text, key) ==
    LET open == <<"<">> \o key \o <<">">>
        close == <<"<", "/">> \o key \o <<">">>
        At(pat, j) == j + Len(pat) - 1 <= Len(text) /\ SubSeq(text, j, j + Len(pat) - 1) = pat
        pairs == {i \in 1..Len(text) :
                    At(open, i) /\ \E j \in (i + Len(open))..Len(text) : At(close, j)}
    IN  IF pairs = {} THEN [found |-> FALSE, inner |-> <<>>]
        ELSE LET i == SetMin(pairs)
                 j == SetMin({j \in (i + Len(open))..Len(text) : At(close, j)})
             IN  [found |-> TRUE, inner |-> SubSeq(text, i + Len(open), j - 1)]

----------------------------------------------------------------------------
(* Response texts: rendered documents of nested tags, and short raw texts  *)

MaxNest == 2

MaxRaw == 4

MaxChunk == 2

TextNode(t) == [k |-> "text", t |-> t]

Elem(name, kids) == [k |-> "elem", name |-> name, kids |-> kids]

RECURSIVE Render(_)
Render(nodes) ==
    IF nodes = <<>> THEN <<>>
    ELSE LET n == Head(nodes)
         IN  (IF n.k = "text" THEN n.t
              ELSE <<"<">> \o n.name \o <<">">> \o Render(n.kids)
                     \o <<"<", "/">> \o n.name \o <<">">>)
             \o Render(Tail(nodes))

LeafTexts == {<<>>, <<"x">>, <<"x", " ", "y">>, <<"x", "\n">>, <<" ", "x">>, <<"x", "y", " ">>}

GapTexts == {<<>>, <<"\n">>, <<"x">>}

LeafElems == {Elem(n, <<TextNode(t)>>) : n \in CodecKeys, t \in LeafTexts}

RECURSIVE ElemsUpTo(_)
ElemsUpTo(d) ==
    IF d <= 1 THEN LeafElems
    ELSE LeafElems \cup
         {Elem(n, <<TextNode(p), e, TextNode(q)>>) :
             n \in CodecKeys, p \in GapTexts, q \in {<<>>, <<"\n">>}, e \in ElemsUpTo(d - 1)}

RECURSIVE RawTexts(_)
RawTexts(n) ==
    IF n = 0 THEN {<<>>}
    ELSE LET R == RawTexts(n - 1)
         IN  R \cup {Append(r, c) : r \in R, c \in {"<", ">", "/", "a", " "}}

StreamDocs ==
    {<<e>> : e \in ElemsUpTo(MaxNest)}
      \cup {<<e, f>> : e \in LeafElems, f \in LeafElems}
      \cup {<<e, Elem(K_c, <<TextNode(<<"x">>)>>)>> : e \in ElemsUpTo(MaxNest) \ LeafElems}
      \cup {<<TextNode(<<"h", "i", " ">>), e>> : e \in LeafElems}
      \cup {<<TextNode(r)>> : r \in RawTexts(MaxRaw)}

InitStream ==
    /\ spc = "streaming"
    /\ sdoc \in StreamDocs
    /\ sinput = Render(sdoc)
    /\ spos = 0
    /\ fullResponse = <<>>
    /\ ext = [tagStack |-> <<>>, currentTagName |-> <<>>, wordBuffer |-> <<>>,
              insideTag |-> FALSE]
    /\ updates = <<>>
    /\ otherStream = NoStream
    /\ CodecIdle
    /\ AgentIdle
    /\ PaymentIdle

\* processChunk(content) for the next content delta of the stream
ProcessChunk ==
    /\ spc = "streaming"
    /\ \E n \in 1..MaxChunk :
          /\ spos + n <= Len(sinput)
          /\ LET chunk == SubSeq(sinput, spos + 1, spos + n)
                 st == processChars(WithOut(ext), chunk)
             IN  /\ fullResponse' = fullResponse \o chunk
                 /\ ext' = ExtOf(st)
                 /\ updates' = updates \o st.out
                 /\ spos' = spos + n
    /\ UNCHANGED <<spc, sdoc, sinput, otherStream>>
    /\ UNCHANGED codecVars
    /\ UNCHANGED agentVars
    /\ UNCHANGED payVars

\* the reader reports done: the finally block flushes the pending word
EndOfStream ==
    /\ spc = "streaming"
    /\ spos = Len(sinput)
    /\ LET st == flushAtEnd(WithOut(ext))
       IN  /\ ext' = ExtOf(st)
           /\ updates' = updates \o st.out
    /\ spc' = "ended"
    /\ UNCHANGED <<sdoc, sinput, spos, fullResponse, otherStream>>
    /\ UNCHANGED codecVars
    /\ UNCHANGED agentVars
    /\ UNCHANGED payVars

NextStream == ProcessChunk \/ EndOfStream

SpecStream == InitStream /\ [][NextStream]_vars

----------------------------------------------------------------------------
(* Claims about the streaming extractor                                    *)

\* every tag of a document, outermost first: its path (the names from the root
\* joined with '_'), its name, its raw inner text, and whether it is a leaf
RECURSIVE TagsOf(_, _)
TagsOf(nodes, prefix) ==
    IF nodes = <<>> THEN <<>>
    ELSE LET n == Head(nodes)
         IN  (IF n.k = "text" THEN <<>>
              ELSE LET path == IF prefix = <<>> THEN n.name
                               ELSE prefix \o <<"_">> \o n.name
                   IN  <<[path |-> path, name |-> n.name, inner |-> Render(n.kids),
                          leaf |-> \A i \in 1..Len(n.kids) : n.kids[i].k = "text"]>>
                         \o TagsOf(n.kids, path))
             \o TagsOf(Tail(nodes), prefix)

DocTags == TagsOf(sdoc, <<>>)

\* the values of all updates emitted for a path, concatenated in emission order
UpdatesFor(path) ==
    Flatten([i \in 1..Len(updates) |->
                IF updates[i].field = path THEN updates[i].value ELSE <<>>])

OnlyTagWithPath(i) == \A j \in 1..Len(DocTags) : DocTags[j].path = DocTags[i].path => j = i

OnlyTagWithName(i) == \A j \in 1..Len(DocTags) : DocTags[j].name = DocTags[i].name => j = i

HasUpdates(path) == \E i \in 1..Len(updates) : updates[i].field = path

----------------------------------------------------------------------------
(* Zod shapes, as far as the Agent inspects and uses them                  *)

ZString == [t |-> "ZodString"]

ZBoolean == [t |-> "ZodBoolean"]

ZNumber == [t |-> "ZodNumber"]

ZEnum(values) == [t |-> "ZodEnum", values |-> values]

ZObject(shape) == [t |-> "ZodObject", shape |-> shape]

ZOptional(inner) == [t |-> "ZodOptional", inner |-> inner]

ZNullable(inner) == [t |-> "ZodNullable", inner |-> inner]

ZArray(element) == [t |-> "ZodArray", element |-> element]

\* an entry of a shape: the key, its schema and schema.description
Field(key, schema) == [key |-> key, schema |-> schema, description |-> <<>>]

\* schema.describe(description)
Described(field, description) == [field EXCEPT !.description = description]

\* while (typeName is ZodOptional or ZodNullable) currentSchema = currentSchema.unwrap()
RECURSIVE Unwrapped(_)
Unwrapped(schema) ==
    IF schema.t \in {"ZodOptional", "ZodNullable"} THEN Unwrapped(schema.inner) ELSE schema

getSchemaTypeName(schema) == Unwrapped(schema).t

\* the variant that does not descend into nested records
validateNoArrays_topLevelOnly(schema) ==
    \E i \in 1..Len(schema.shape) : Unwrapped(schema.shape[i].schema).t = "ZodArray"

\* validateNoArrays(schema): TRUE when it throws 'Arrays are not supported'
RECURSIVE validateNoArrays(_)
validateNoArrays(schema) ==
    \E i \in 1..Len(schema.shape) :
        LET currentSchema == Unwrapped(schema.shape[i].schema)
        IN  \/ currentSchema.t = "ZodArray"
            \/ currentSchema.t = "ZodObject" /\ validateNoArrays(currentSchema)

\* results of a call: a value, null/undefined, or a thrown error
Ok(v) == [err |-> "", null |-> FALSE, val |-> v]

NullResult == [err |-> "", null |-> TRUE, val |-> Null]

Err(e) == [err |-> e, null |-> FALSE, val |-> Null]

\* obj[key] of a value: undefined unless obj is a mapping holding the key
Prop(obj, key) ==
    IF obj.k # "map" THEN Undef
    ELSE LET at == {i \in 1..Len(obj.m) : obj.m[i].key = key}
         IN  IF at = {} THEN Undef ELSE obj.m[SetMin(at)].val

\* obj[key] = val
SetProp(obj, key, val) ==
    LET at == {i \in 1..Len(obj.m) : obj.m[i].key = key}
    IN  IF at = {} THEN Obj(Append(obj.m, Entry(key, val)))
        ELSE Obj([obj.m EXCEPT ![SetMin(at)].val = val])

Falsy(v) ==
    \/ v.k \in {"null", "undef"}
    \/ v.k = "str" /\ v.s = <<>>
    \/ v.k = "bool" /\ ~v.b
    \/ v.k = "num" /\ v.ip = 0 /\ v.fp = <<>>

\* schema.parse(value) of zod: the parsed value, with the keys a record does
\* not declare stripped, or a ZodError
RECURSIVE ZodParse(_, _)
RECURSIVE ZodParseFields(_, _, _)
ZodParseFields(shape, value, acc) ==
    IF shape = <<>> THEN Ok(Obj(acc))
    ELSE LET f == Head(shape)
             r == ZodParse(f.schema, Prop(value, f.key))
         IN  IF r.err # "" THEN r
             ELSE ZodParseFields(Tail(shape), value,
                                 IF r.val.k = "undef" THEN acc
                                 ELSE Append(acc, Entry(f.key, r.val)))

ZodParse(schema, value) ==
    CASE schema.t = "ZodString" ->
            IF value.k = "str" THEN Ok(value) ELSE Err("ZodError")
      [] schema.t = "ZodBoolean" ->
            IF value.k = "bool" THEN Ok(value) ELSE Err("ZodError")
      [] schema.t = "ZodNumber" ->
            IF value.k = "num" THEN Ok(value) ELSE Err("ZodError")
      [] schema.t = "ZodEnum" ->
            IF value.k = "str" /\ \E i \in 1..Len(schema.values) : schema.values[i] = value.s
            THEN Ok(value) ELSE Err("ZodError")
      [] schema.t = "ZodOptional" ->
            IF value.k = "undef" THEN Ok(value) ELSE ZodParse(schema.inner, value)
      [] schema.t = "ZodNullable" ->
            IF value.k = "null" THEN Ok(value) ELSE ZodParse(schema.inner, value)
      [] schema.t = "ZodArray" ->
            IF value.k = "seq"
               /\ \A i \in 1..Len(value.e) : ZodParse(schema.element, value.e[i]).err = ""
            THEN Ok(Arr([i \in 1..Len(value.e) |-> ZodParse(schema.element, value.e[i]).val]))
            ELSE Err("ZodError")
      [] OTHER ->
            IF value.k = "map" THEN ZodParseFields(schema.shape, value, <<>>)
            ELSE Err("ZodError")

----------------------------------------------------------------------------
(* measure, callLLM and the calls to a capability provider                 *)

\* measureFn(fn, description).  "mockMeasure" is the measure the tests pass
\* to run: it awaits fn, so what fn throws propagates.  "measure" is the
\* default of @ments/utils: the callers test its result for a falsy value after
\* a callback that can only throw, so a throwing callback yields null.
measure(measureFn, r) ==
    IF r.err # "" /\ measureFn = "measure" THEN NullResult ELSE r

\* what a remote call produced: a transport failure, or an answer carrying
\* the text of a generation, the tools of a discovery or the result of a call
Reply(ok, content, list, value) ==
    [ok |-> ok, content |-> content, tools |-> list, result |-> value]

FailedReply == Reply(FALSE, <<>>, <<>>, Null)

TextReply(content) == Reply(TRUE, content, <<>>, Null)

ToolsReply(list) == Reply(TRUE, <<>>, list, Null)

ResultReply(value) == Reply(TRUE, <<>>, <<>>, value)

\* fetchWithPayment without a payment: the response if it is ok, else it throws
fetchWithPayment(reply) ==
    IF reply.ok THEN Ok(reply) ELSE Err("Request failed")

\* callLLM(...): the text, or what it throws
callLLM(measureFn, streaming, reply) ==
    IF ~streaming THEN
        measure(measureFn,
                LET res == fetchWithPayment(reply)
                IN  IF res.err # "" THEN res
                    ELSE IF reply.content = <<>> THEN Err("Unexpected response format")
                    ELSE Ok(reply.content))
    ELSE
        LET response == measure(measureFn, fetchWithPayment(reply))
        IN  IF response.err # "" THEN response
            ELSE IF response.null THEN Err("TypeError")
            ELSE Ok(reply.content)

discoverTools(measureFn, reply) ==
    measure(measureFn,
            LET response == fetchWithPayment(reply)
            IN  IF response.err # "" THEN response ELSE Ok(reply.tools))

invokeTool(measureFn, reply) ==
    measure(measureFn,
            LET response == fetchWithPayment(reply)
            IN  IF response.err # "" THEN response ELSE Ok(reply.result))

----------------------------------------------------------------------------
(* The resolution directive of an input field and the address it names     *)

\* s.startsWith(prefix)
startsWithText(s, prefix) ==
    Len(s) >= Len(prefix) /\ SubSeq(s, 1, Len(prefix)) = prefix

\* \s*: the first position of s from i on that holds no whitespace
RECURSIVE skipSpace(_, _)
skipSpace(s, i) ==
    IF i <= Len(s) /\ s[i] \in WS THEN skipSpace(s, i + 1) ELSE i

\* [^\s]+: the last position of the run without whitespace that starts at i,
\* i - 1 when the run is empty
RECURSIVE nonSpaceEnd(_, _)
nonSpaceEnd(s, i) ==
    IF i <= Len(s) /\ s[i] \notin WS THEN nonSpaceEnd(s, i + 1) ELSE i - 1

\* the length of "http://" or "https://" at the start of s, 0 without either
httpHead(s) ==
    IF startsWithText(s, S_http \o <<"s", ":", "/", "/">>) THEN 8
    ELSE IF startsWithText(s, S_http \o <<":", "/", "/">>) THEN 7
    ELSE 0

NoUrl == [found |-> FALSE, url |-> <<>>]

\* desc.match(/^mcp:\s*(https?:\/\/[^\s]+)/): its group 1
urlMatch(desc) ==
    IF ~startsWithText(desc, S_mcp_) THEN NoUrl
    ELSE LET rest == SubSeq(desc, skipSpace(desc, Len(S_mcp_) + 1), Len(desc))
             last == nonSpaceEnd(rest, httpHead(rest) + 1)
         IN  IF httpHead(rest) > 0 /\ last > httpHead(rest)
             THEN [found |-> TRUE, url |-> SubSeq(rest, 1, last)]
             ELSE NoUrl

\* the first position of c in s, 0 when s does not hold it
IndexOf(s, c) == IF includes(s, c) THEN SetMin({i \in 1..Len(s) : s[i] = c}) ELSE 0

\* the last position of c in s, 0 when s does not hold it
LastIndexOf(s, c) == IF includes(s, c) THEN SetMax({i \in 1..Len(s) : s[i] = c}) ELSE 0

\* validateUrl(userUrl) for an address made of a scheme, "://", an optional
\* user part before "@", a lower-case host, an optional path and an optional
\* fragment: parsed.href, or the error it throws.  The URL parser rejects an
\* empty host; a fragment, a user name or a password is forbidden.
validateUrl(userUrl) ==
    LET head == httpHead(userUrl)
        rest == SubSeq(userUrl, head + 1, Len(userUrl))
        hashAt == IndexOf(rest, "#")
        hash == IF hashAt = 0 THEN <<>> ELSE SubSeq(rest, hashAt + 1, Len(rest))
        beforeHash == IF hashAt = 0 THEN rest ELSE SubSeq(rest, 1, hashAt - 1)
        slashAt == IndexOf(beforeHash, "/")
        authority == IF slashAt = 0 THEN beforeHash ELSE SubSeq(beforeHash, 1, slashAt - 1)
        pathname == IF slashAt = 0 THEN <<"/">>
                    ELSE SubSeq(beforeHash, slashAt, Len(beforeHash))
        at == LastIndexOf(authority, "@")
        userinfo == SubSeq(authority, 1, at - 1)
        host == SubSeq(authority, at + 1, Len(authority))
    IN  IF head = 0 \/ host = <<>> THEN Err("Invalid URL")
        ELSE IF hash # <<>> \/ userinfo \notin {<<>>, <<":">>} THEN Err("Invalid URL")
        ELSE Ok(SubSeq(userUrl, 1, head) \o host \o pathname
                \o (IF hashAt = 0 THEN <<>> ELSE <<"#">>))

----------------------------------------------------------------------------
(* The private methods of Agent that turn a generation into a decision     *)

\* obj?.[key]
OptProp(obj, key) == IF obj.k \in {"null", "undef"} THEN Undef ELSE Prop(obj, key)

\* a || b
Either(a, b) == IF Falsy(a) THEN b ELSE a

\* list.filter(x => Array.isArray(names) ? names.includes(x.name) : names === x.name)
\* the variant that takes the names as the generation gave them
FilterByName_asNamed(list, names) ==
    IF names.k = "seq"
    THEN LET texts == SelectSeq(names.e, LAMBDA v : v.k = "str")
         IN  [i \in 1..Len(texts) |-> texts[i].s]
    ELSE IF names.k = "str" THEN <<names.s>> ELSE <<>>

FilterByName(list, names) ==
    SelectSeq(list, LAMBDA name :
        IF names.k = "seq" THEN \E i \in 1..Len(names.e) : names.e[i] = Str(name)
        ELSE names = Str(name))

selectRelevantServers(measureFn, servers, reply) ==
    measure(measureFn,
            LET response == callLLM(measureFn, FALSE, reply)
            IN  IF response.err # "" THEN response
                ELSE IF response.null THEN Ok(servers)
                ELSE LET parsed == xmlToObj(response.val)
                         serverNames == Either(OptProp(Prop(parsed, S_relevant_servers),
                                                       S_server_names), Arr(<<>>))
                     IN  Ok(FilterByName(servers, serverNames)))

selectRelevantTools(measureFn, toolList, reply) ==
    measure(measureFn,
            LET response == callLLM(measureFn, FALSE, reply)
            IN  IF response.err # "" THEN response
                ELSE IF response.null THEN Ok(SubSeq(toolList, 1, 1))
                ELSE LET parsed == xmlToObj(response.val)
                         toolNames == Either(OptProp(Prop(parsed, S_selected_tools),
                                                     S_tool_names), Arr(<<>>))
                     IN  Ok(FilterByName(toolList, toolNames)))

\* the variant that passes on whatever the response decodes to
generateToolParameters_asDecoded(measureFn, reply) ==
    measure(measureFn,
            LET response == callLLM(measureFn, FALSE, reply)
            IN  IF response.err # "" THEN response
                ELSE IF response.null THEN NullResult
                ELSE Ok(xmlToObj(response.val)))

generateToolParameters(measureFn, reply) ==
    measure(measureFn,
            LET response == callLLM(measureFn, FALSE, reply)
            IN  IF response.err # "" THEN response
                ELSE IF response.null THEN Ok(EmptyObj)
                ELSE LET parsed == xmlToObj(response.val)
                     IN  Ok(Either(Prop(parsed, S_parameters), EmptyObj)))

\* resolveMCPInputFields, from the response of the generation asked to pick
\* a tool: tools.find(t => t.name === parsed.selected_tool), as a list of at
\* most one tool; empty when the response or the name is unset, when decoding
\* or reading the name throws, and when no tool has the name
selectResolverTool(toolList, response) ==
    IF response.null \/ response.val = <<>> THEN <<>>
    ELSE LET parsed == xmlToObj(response.val)
             selectedToolName == OptProp(parsed, S_selected_tool)
         IN  IF Falsy(selectedToolName) THEN <<>>
             ELSE LET named == SelectSeq(toolList, LAMBDA name : selectedToolName = Str(name))
                  IN  IF named = <<>> THEN <<>> ELSE <<Head(named)>>

\* allowedValues.map(v => `"${v}"`).join(', ')
quotedValues(values) ==
    Join([i \in 1..Len(values) |-> <<"\"">> \o values[i] \o <<"\"">>], <<",", " ">>)

\* getFieldDescriptions(schema, path): the lines '- path SHOULD be description'
\* of the task, one for each field with a description or a constraint, at
\* every depth
RECURSIVE getFieldDescriptions(_, _)
RECURSIVE describeFields(_, _)
describeFields(shape, path) ==
    IF shape = <<>> THEN <<>>
    ELSE LET key == Head(shape).key
             currentPath == IF path # <<>> THEN path \o <<"_">> \o key ELSE key
             currentSchema == Unwrapped(Head(shape).schema)
             constraint ==
                 CASE currentSchema.t = "ZodBoolean" -> S_either_true_or_false
                   [] currentSchema.t = "ZodEnum" ->
                         S_exactly_one_of \o quotedValues(currentSchema.values)
                   [] OTHER -> <<>>
             description ==
                 IF constraint = <<>> THEN Head(shape).description
                 ELSE IF Head(shape).description # <<>>
                     THEN Head(shape).description \o <<".", " ">> \o S_Must_be \o constraint
                 ELSE S_Must_be \o constraint
         IN  (IF description # <<>>
              THEN <<<<"-", " ">> \o currentPath \o S_SHOULD_be \o description>>
              ELSE <<>>)
             \o (IF currentSchema.t = "ZodObject"
                 THEN getFieldDescriptions(currentSchema, currentPath) ELSE <<>>)
             \o describeFields(Tail(shape), path)

\* the variant that names every field by its own key, whatever its depth
getFieldDescriptions_keyOnly(schema, path) == describeFields(schema.shape, <<>>)

\* the variant that lists the last field first
getFieldDescriptions_reversed(schema, path) ==
    [i \in 1..Len(describeFields(schema.shape, path)) |->
        describeFields(schema.shape, path)[Len(describeFields(schema.shape, path)) + 1 - i]]

getFieldDescriptions(schema, path) == describeFields(schema.shape, path)

\* Object.keys(value).length
KeyCount(value) ==
    CASE value.k = "map" -> Len(value.m)
      [] value.k = "seq" -> Len(value.e)
      [] value.k = "str" -> Len(value.s)
      [] OTHER -> 0

\* value[Object.keys(value)[0]], for a value with a key
FirstChild(value) ==
    CASE value.k = "map" -> value.m[1].val
      [] value.k = "seq" -> value.e[1]
      [] OTHER -> Str(<<value.s[1]>>)

\* the loop over Object.entries(shape) of generateResponse
RECURSIVE Reconcile(_, _, _, _)
Reconcile(shape, sourceObject, response, acc) ==
    IF shape = <<>> THEN acc
    ELSE LET key == Head(shape).key
             value == Prop(sourceObject, key)
             typeName == getSchemaTypeName(Head(shape).schema)
             match == RawExtract(response, key)
             kept == IF typeName = "ZodString" /\ typeofObject(value) /\ value.k # "null"
                        /\ match.found
                     THEN Str(match.inner) ELSE value
         IN  Reconcile(Tail(shape), sourceObject, response,
                       IF value.k = "undef" THEN acc ELSE SetProp(acc, key, kept))

generateResponse(measureFn, streaming, outputFormat, reply) ==
    LET response == measure(measureFn, callLLM(measureFn, streaming, reply))
    IN  IF response.err # "" THEN response
        ELSE IF response.null \/ response.val = <<>> THEN Ok(EmptyObj)
        ELSE LET parsed == xmlToObj(response.val)
             IN  IF Falsy(parsed) THEN Ok(EmptyObj)
                 ELSE LET sourceObject ==
                              IF KeyCount(parsed) = 1 /\ typeofObject(FirstChild(parsed))
                              THEN FirstChild(parsed) ELSE parsed
                      IN  IF sourceObject.k = "null" /\ outputFormat.shape # <<>>
                          THEN Err("TypeError")
                          ELSE Ok(Reconcile(outputFormat.shape, sourceObject,
                                            response.val, EmptyObj))

\* the variant that returns the reconciled record without validating it
validatedOrEmpty_unchecked(measureFn, outputFormat, response) ==
    Ok(IF response.null \/ Falsy(response.val) THEN EmptyObj ELSE response.val)

\* the end of the callback of run: outputFormat.parse(response || {}) under
\* measure, then validatedResponse || {}
validatedOrEmpty(measureFn, outputFormat, response) ==
    LET record == IF response.null \/ Falsy(response.val) THEN EmptyObj ELSE response.val
        validatedResponse == measure(measureFn, ZodParse(outputFormat, record))
    IN  IF validatedResponse.err # "" THEN validatedResponse
        ELSE IF validatedResponse.null THEN Ok(EmptyObj)
        ELSE validatedResponse

----------------------------------------------------------------------------
(* Agent: construction and one run, a step per remote call                 *)

Server1 == <<"s", "1">>

Server2 == <<"s", "2">>

Tool1 == <<"t", "1">>

Tool2 == <<"t", "2">>

K_q == <<"q">>

K_ok == <<"o", "k">>

Tag(name, content) == <<"<">> \o name \o <<">">> \o content \o <<"<", "/">> \o name \o <<">">>

\* inputFormat of the modelled agents: z.object({ q: z.string() })
InputFormat == ZObject(<<Field(K_q, ZString)>>)

Inputs == {Obj(<<Entry(K_q, Str(<<"x">>))>>), Obj(<<Entry(K_q, One)>>)}

\* a directive that names an address validateUrl accepts
ResolvableDirective == S_mcp_ \o <<" ">> \o S_http \o <<":", "/", "/", "h">>

\* descriptions of the input field: a plain one, a directive without an
\* address, directives with an address, with a fragment, with a user name
Descriptions ==
    { <<"q">>,
      S_mcp_ \o <<"x">>,
      ResolvableDirective,
      S_mcp_ \o S_http \o <<"s", ":", "/", "/", "h", "/", "p", " ", "x">>,
      S_mcp_ \o S_http \o <<":", "/", "/", "h", "#", "f">>,
      S_mcp_ \o <<" ">> \o S_http \o <<":", "/", "/", "u", "@", "h">> }

InputFormats ==
    {InputFormat} \cup {ZObject(<<Described(Field(K_q, ZString), d)>>) : d \in Descriptions}

AnswerShape == ZObject(<<Field(S_answer, ZString)>>)

ShapesWithoutArrays ==
    { AnswerShape,
      ZObject(<<Field(S_answer, ZOptional(ZString)), Field(K_ok, ZNullable(ZBoolean))>>),
      ZObject(<<Field(S_answer, ZEnum(<<<<"x">>, <<"y">>>>)),
                Field(S_detail, ZObject(<<Field(K_ok, ZBoolean)>>))>>),
      ZObject(<<Described(Field(S_answer, ZString), <<"d">>),
                Described(Field(K_ok, ZOptional(ZBoolean)), <<"d">>),
                Described(Field(S_detail,
                                ZNullable(ZObject(<<Field(K_b, ZString),
                                                    Field(K_ok, ZBoolean)>>))),
                          <<"e">>)>>) }

ShapesWithArrays ==
    { ZObject(<<Field(S_answer, ZArray(ZString))>>),
      ZObject(<<Field(S_answer, ZString), Field(K_ok, ZOptional(ZArray(ZString)))>>),
      ZObject(<<Field(S_detail, ZObject(<<Field(S_answer, ZArray(ZString))>>))>>),
      ZObject(<<Field(S_detail,
                      ZOptional(ZObject(<<Field(S_answer,
                                              ZNullable(ZOptional(ZArray(ZBoolean))))>>)))>>) }

\* names that hold the separator of the keys of toolResults
ServerS == <<"s">>

ServerST == <<"s", ".", "t">>

ToolTU == <<"t", ".", "u">>

ToolU == <<"u">>

DottedServers == <<ServerS, ServerST>>

\* the servers of the Agent that two runs share
PairServers == <<ServerST>>

ServerLists == {<<>>, <<Server1>>, <<Server1, Server2>>, DottedServers}

ToolLists == {<<>>, <<Tool1>>, <<Tool1, Tool2>>}

\* the tool lists a server may answer discovery with
ToolListsOf(server) ==
    IF server = ServerS THEN {<<ToolTU>>}
    ELSE IF server = ServerST THEN {<<ToolU>>}
    ELSE ToolLists

\* the configs and run arguments explored: every shape without servers and
\* without a description of the input field, the answer shape with servers,
\* a described input field with the answer shape and at most one server,
\* and with a progress callback only without servers
\* an input shape with a directive field followed by a plain field, and an
\* input for it
TwoFieldFormat ==
    ZObject(<<Described(Field(K_q, ZString), ResolvableDirective), Field(K_a, ZString)>>)

TwoFieldInput == Obj(<<Entry(K_q, Str(<<"x">>)), Entry(K_a, Str(<<"y">>))>>)

Configs ==
    {c \in [outputFormat : ShapesWithoutArrays \cup ShapesWithArrays,
            servers : ServerLists,
            measureFn : {"measure", "mockMeasure"},
            streaming : BOOLEAN,
            input : Inputs \cup {TwoFieldInput},
            inputFormat : InputFormats \cup {TwoFieldFormat}] :
        /\ (c.inputFormat = TwoFieldFormat) = (c.input = TwoFieldInput)
        /\ c.inputFormat = TwoFieldFormat => c.servers = <<>> /\ ~c.streaming
        /\ c.servers # <<>>
            => c.outputFormat = AnswerShape /\ c.input = Obj(<<Entry(K_q, Str(<<"x">>))>>)
        /\ c.servers = DottedServers => c.inputFormat = InputFormat /\ ~c.streaming
        /\ c.inputFormat # InputFormat
            => /\ c.outputFormat = AnswerShape
               /\ c.streaming
                    => /\ c.servers = <<>>
                       /\ c.inputFormat.shape[1].description = ResolvableDirective
               /\ Len(c.servers) <= 1
               /\ c.servers # <<>>
                    => c.inputFormat.shape[1].description = ResolvableDirective}

FreeText == S_none

\* a selection that names the servers in another order, one of them twice,
\* and a server that is not configured
ScrambledServerNames ==
    Tag(S_relevant_servers,
        Tag(S_server_names, Tag(S_item, Server2) \o Tag(S_item, S_other)
                                \o Tag(S_item, Server1) \o Tag(S_item, Server2)))

\* a selection that names the tools in another order, one of them twice, and
\* a tool that was not discovered
ScrambledToolNames ==
    Tag(S_selected_tools,
        Tag(S_tool_names, Tag(S_item, Tool2) \o Tag(S_item, S_other)
                              \o Tag(S_item, Tool1) \o Tag(S_item, Tool2)))

ServerSelectionTexts ==
    { ScrambledServerNames,
      Tag(S_relevant_servers, Tag(S_server_names, Server2)),
      Tag(S_other, Server1),
      FreeText }

ToolSelectionTexts ==
    { ScrambledToolNames,
      Tag(S_selected_tools, Tag(S_tool_names, Tool2)),
      FreeText }

\* the answers explored for the selection among the given servers
ServerSelectionTextsFor(servers) ==
    IF servers \in {DottedServers, PairServers}
    THEN {Tag(S_relevant_servers,
              Tag(S_server_names, Tag(S_item, ServerS) \o Tag(S_item, ServerST)))}
    ELSE ServerSelectionTexts

\* the answers explored for the selection among the tools of a server
ToolSelectionTextsFor(server) ==
    IF server \in {ServerS, ServerST}
    THEN {Tag(S_selected_tools, Tag(S_tool_names, Tag(S_item, ToolTU) \o Tag(S_item, ToolU)))}
    ELSE ToolSelectionTexts

ParameterTexts == { Tag(S_parameters, Tag(K_q, <<"x">>)), FreeText }

ResolverSelectionTexts ==
    { Tag(S_selected_tool, Tool1), Tag(S_selected_tool, Tool2), FreeText }

FinalTexts ==
    { Tag(S_answer, <<"x">>),
      Tag(S_response, Tag(S_answer, <<"x", " ", "y">>)),
      Tag(S_answer, <<"1">>),
      Tag(S_answer, Tag(K_b, <<"x">>)) \o Tag(K_ok, S_true),
      Tag(S_answer, <<"y">>) \o Tag(S_detail, Tag(K_ok, S_true)) \o Tag(S_other, <<"z">>),
      Tag(S_answer, <<"z">>) \o Tag(S_detail, Tag(K_ok, <<"x">>)),
      Tag(S_answer, Tag(S_item, <<"1">>)),
      <<"<">> \o S_answer \o <<" ", "b", ">">> \o Tag(K_b, <<"x">>) \o <<"<", "/">> \o S_answer
          \o <<">">> \o Tag(K_ok, S_true),
      Tag(S_detail, Tag(S_answer, <<"z">>)) \o Tag(S_answer, Tag(K_b, <<"x">>)),
      FreeText,
      <<>> }

\* the final generations explored: all of them for an agent without servers,
\* two after a tool phase
FinalTextsFor(servers) ==
    IF servers = <<>> THEN FinalTexts ELSE {Tag(S_answer, <<"x">>), FreeText}

ToolResultValues == {Str(<<"r">>)}

\* the results a tool may answer an invocation with
ToolResultsOf(tool) ==
    IF tool = ToolU THEN {Str(<<"r">>), Str(<<>>)}
    ELSE IF tool = Tool2 THEN {EmptyObj}
    ELSE ToolResultValues

\* the runs explored invoke at most this many tools
MaxInvocations == 2

Replies(texts) == {FailedReply} \cup {TextReply(t) : t \in texts}

Call(kind, server, tool, arg) ==
    [kind |-> kind, server |-> server, tool |-> tool, arg |-> arg,
     answered |-> FALSE, reply |-> FailedReply]

\* the locals of the run
Run ==
    [pc |-> pc, relevantServers |-> relevantServers, serverIndex |-> serverIndex,
     tools |-> tools, relevantTools |-> relevantTools, toolIndex |-> toolIndex,
     parameters |-> parameters, toolResults |-> toolResults,
     toolInvocations |-> toolInvocations, calls |-> calls, runResult |-> runResult,
     validatedInput |-> validatedInput, fieldIndex |-> fieldIndex,
     progress |-> progress]

Become(r) ==
    /\ pc' = r.pc
    /\ relevantServers' = r.relevantServers
    /\ serverIndex' = r.serverIndex
    /\ tools' = r.tools
    /\ relevantTools' = r.relevantTools
    /\ toolIndex' = r.toolIndex
    /\ parameters' = r.parameters
    /\ toolResults' = r.toolResults
    /\ toolInvocations' = r.toolInvocations
    /\ calls' = r.calls
    /\ runResult' = r.runResult
    /\ validatedInput' = r.validatedInput
    /\ fieldIndex' = r.fieldIndex
    /\ progress' = r.progress
    /\ UNCHANGED <<agent, config, otherRun>>
    /\ UNCHANGED codecVars
    /\ UNCHANGED streamVars
    /\ UNCHANGED payVars

\* a lifecycle event of the run, about a field or a tool where it names one
Event(stage, about) == [stage |-> stage, field |-> about, value |-> <<>>]

\* the variant of progressCallback that keeps quiet about a tool invocation
progressCallback_skipInvocation(r, event) ==
    IF config.streaming /\ event.stage # "tool_invocation"
    THEN [r EXCEPT !.progress = Append(@, event)] ELSE r

\* progressCallback?.(event): the run was given a callback exactly when the
\* final generation streams
progressCallback(r, event) ==
    IF config.streaming THEN [r EXCEPT !.progress = Append(@, event)] ELSE r

\* the reply to the call that was pending
Answered(r, reply) ==
    [r EXCEPT !.calls = [@ EXCEPT ![Len(@)] = [@ EXCEPT !.answered = TRUE, !.reply = reply]]]

----------------------------------------------------------------------------
(* The prompt of the final generation                                      *)

S_input == <<"i", "n", "p", "u", "t">>

S_output_format == <<"o", "u", "t", "p", "u", "t", "_", "f", "o", "r", "m", "a", "t">>

S_task == <<"t", "a", "s", "k">>

S_context == <<"c", "o", "n", "t", "e", "x", "t">>

S_tool_results == <<"t", "o", "o", "l", "_", "r", "e", "s", "u", "l", "t", "s">>

S_Generate_a_response ==
    <<"G", "e", "n", "e", "r", "a", "t", "e", " ", "a", " ", "r", "e", "s", "p", "o", "n",
      "s", "e", " ", "m", "a", "t", "c", "h", "i", "n", "g", " ", "t", "h", "e", " ", "o",
      "u", "t", "p", "u", "t", " ", "f", "o", "r", "m", "a", "t", " ", "e", "x", "a", "c",
      "t", "l", "y", ",", " ", "u", "s", "i", "n", "g", " ", "X", "M", "L", " ", "t", "a",
      "g", "s", " ", "f", "o", "r", " ", "e", "a", "c", "h", " ", "f", "i", "e", "l", "d">>

S_accordingly ==
    <<"\n", "a", "c", "c", "o", "r", "d", "i", "n", "g", "l", "y", " ", "t", "o", " ", "f",
      "o", "l", "l", "o", "w", "i", "n", "g", " ", "i", "n", "s", "t", "r", "u", "c", "t",
      "i", "o", "n", "s", ":", "\n", "\n">>

\* the skeleton of a shape: a nested skeleton for a record field, also under
\* optional and nullable, '' for every other field
RECURSIVE describeShape(_)
describeShape(shape) ==
    IF shape = <<>> THEN <<>>
    ELSE LET currentSchema == Unwrapped(Head(shape).schema)
         IN  <<Entry(Head(shape).key,
                     IF currentSchema.t = "ZodObject"
                     THEN Obj(describeShape(currentSchema.shape))
                     ELSE Str(<<>>))>>
             \o describeShape(Tail(shape))

\* the variant that asks the field itself, not what it wraps, for its kind
getNestedDescription_wrapped(schema) ==
    Obj([i \in 1..Len(schema.shape) |->
            Entry(schema.shape[i].key,
                  IF schema.shape[i].schema.t = "ZodObject"
                  THEN Obj(describeShape(schema.shape[i].schema.shape))
                  ELSE Str(<<>>))])

getNestedDescription(schema) == Obj(describeShape(schema.shape))

getOutputFormatDescription(outputFormat) == getNestedDescription(outputFormat)

generateTaskDescription(outputFormat) ==
    LET fieldDescriptions == getFieldDescriptions(outputFormat, <<>>)
    IN  IF Len(fieldDescriptions) > 0
        THEN S_Generate_a_response \o S_accordingly \o Join(fieldDescriptions, <<"\n">>)
        ELSE S_Generate_a_response

\* JSON.stringify(result) === '{}': a mapping without a defined entry
StringifiesEmpty(result) ==
    result.k = "map" /\ \A i \in 1..Len(result.m) : result.m[i].val.k = "undef"

\* the variant that looks at the keys only
hasToolResults_anyKey(results) == Len(results.m) > 0

hasToolResults(results) ==
    /\ Len(results.m) > 0
    /\ \E i \in 1..Len(results.m) :
         /\ results.m[i].val.k \notin {"null", "undef"}
         /\ results.m[i].val # Str(<<>>)
         /\ ~StringifiesEmpty(results.m[i].val)

\* userPrompt of generateResponse
userPrompt(input, results, outputFormat) ==
    objToXml(Obj(<<Entry(S_input, input),
                   Entry(S_output_format, getOutputFormatDescription(outputFormat)),
                   Entry(S_task, Str(generateTaskDescription(outputFormat)))>>
                 \o (IF hasToolResults(results)
                     THEN <<Entry(S_context, Obj(<<Entry(S_tool_results, results)>>))>>
                     ELSE <<>>)),
             <<>>)

\* the callback of run ended with res: run returns or throws what the
\* outermost measureFn makes of it
Finish(r, res) ==
    LET out == measure(config.measureFn, res)
    IN  [r EXCEPT !.pc = IF out.err # "" THEN "threw" ELSE "returned", !.runResult = out]

toGenerate(r) ==
    [progressCallback(r, Event("response_generation", <<>>))
       EXCEPT !.pc = "generate",
              !.calls = Append(@, Call("llm_final", <<>>, <<>>,
                                       userPrompt(r.validatedInput, r.toolResults,
                                                  config.outputFormat)))]

\* the variant that walks relevantServers from its last server to its first
toServer_reversed(r, i) ==
    IF i <= Len(r.relevantServers)
    THEN [r EXCEPT !.pc = "discover", !.serverIndex = i, !.tools = <<>>,
                   !.relevantTools = <<>>, !.toolIndex = 0,
                   !.calls = Append(@, Call("discover",
                              r.relevantServers[Len(r.relevantServers) + 1 - i], <<>>, Null))]
    ELSE toGenerate(r)

\* for (const server of relevantServers): the discovery of the i-th server
toServer(r, i) ==
    IF i <= Len(r.relevantServers)
    THEN [r EXCEPT !.pc = "discover", !.serverIndex = i, !.tools = <<>>,
                   !.relevantTools = <<>>, !.toolIndex = 0,
                   !.calls = Append(@, Call("discover", r.relevantServers[i], <<>>, Null))]
    ELSE toGenerate(r)

\* if (relevantServers.length > 0): the discovery is announced and starts
toDiscovery(r) ==
    IF Len(r.relevantServers) > 0
    THEN toServer(progressCallback(r, Event("tool_discovery", <<>>)), 1)
    ELSE toGenerate(r)

\* for (const tool of relevantTools): the parameters of the j-th tool
toTool(r, j) ==
    IF j <= Len(r.relevantTools)
    THEN [progressCallback(r, Event("tool_invocation",
                                    r.relevantServers[r.serverIndex] \o <<".">>
                                        \o r.relevantTools[j]))
            EXCEPT !.pc = "genParams", !.toolIndex = j,
                   !.calls = Append(@, Call("llm_params", r.relevantServers[r.serverIndex],
                                            r.relevantTools[j], Null))]
    ELSE toServer(r, r.serverIndex + 1)

\* something threw inside the callback measured as "Discover and invoke tools"
abortTools(r, e) ==
    LET res == measure(config.measureFn, Err(e))
    IN  IF res.err # "" THEN Finish(r, res) ELSE toGenerate(r)

\* name of the temporary server that resolves the input field key
Resolver(key) == S_resolver_ \o key

\* resolveMCPInputFields returned: its locals are gone, run selects servers
\* when servers are configured, else it generates the response
afterResolution(r) ==
    LET s == [r EXCEPT !.tools = <<>>, !.relevantTools = <<>>, !.toolIndex = 0,
                       !.parameters = Null]
    IN  IF Len(config.servers) > 0
        THEN [progressCallback(s, Event("server_selection", <<>>))
                EXCEPT !.pc = "selectServers",
                       !.calls = Append(@, Call("llm_servers", <<>>, <<>>, Null))]
        ELSE toGenerate(s)

\* something threw inside the callback measured as "Resolve MCP input fields"
abortResolution(r, e) ==
    LET res == measure(config.measureFn, Err(e))
    IN  IF res.err # "" THEN Finish(r, res) ELSE afterResolution(r)

\* for (const [key, schema] of Object.entries(shape)) of resolveMCPInputFields,
\* from the i-th field up to the discovery on the address of a directive
RECURSIVE toField(_, _)
toField(r, i) ==
    IF i > Len(config.inputFormat.shape) THEN afterResolution(r)
    ELSE LET desc == config.inputFormat.shape[i].description
         IN  IF ~startsWithText(desc, S_mcp_) THEN toField(r, i + 1)
             ELSE IF ~urlMatch(desc).found THEN toField(r, i + 1)
             ELSE IF validateUrl(urlMatch(desc).url).err # ""
                 THEN abortResolution(r, validateUrl(urlMatch(desc).url).err)
             ELSE [progressCallback(r, Event("input_resolution",
                                             config.inputFormat.shape[i].key))
                     EXCEPT !.pc = "resolveDiscover", !.fieldIndex = i,
                            !.calls = Append(@, Call("discover",
                                       Resolver(config.inputFormat.shape[i].key), <<>>,
                                       Str(validateUrl(urlMatch(desc).url).val)))]

InitAgent ==
    /\ agent = "new"
    /\ config \in Configs
    /\ pc = "idle"
    /\ relevantServers = <<>>
    /\ serverIndex = 0
    /\ tools = <<>>
    /\ relevantTools = <<>>
    /\ toolIndex = 0
    /\ parameters = Null
    /\ toolResults = EmptyObj
    /\ toolInvocations = <<>>
    /\ calls = <<>>
    /\ runResult = NullResult
    /\ validatedInput = Null
    /\ fieldIndex = 0
    /\ progress = <<>>
    /\ otherRun = NoRun
    /\ CodecIdle
    /\ StreamIdle
    /\ PaymentIdle

\* new Agent(config)
Construct ==
    /\ agent = "new"
    /\ agent' = IF validateNoArrays(config.outputFormat) THEN "rejected" ELSE "constructed"
    /\ UNCHANGED <<config, pc, relevantServers, serverIndex, tools, relevantTools, toolIndex,
                   parameters, toolResults, toolInvocations, calls, runResult,
                   validatedInput, fieldIndex, progress, otherRun>>
    /\ UNCHANGED codecVars
    /\ UNCHANGED streamVars
    /\ UNCHANGED payVars

\* agent.run(input, progressCallback, measureFn) up to its first remote call
StartRun ==
    /\ agent = "constructed"
    /\ pc = "idle"
    /\ LET validated == measure(config.measureFn, ZodParse(config.inputFormat, config.input))
       IN  Become(IF validated.err # "" THEN Finish(Run, validated)
                  ELSE IF validated.null
                      THEN Finish(Run, Err("Input validation failed"))
                  ELSE toField(progressCallback([Run EXCEPT !.validatedInput = validated.val],
                                                Event("input_resolution", <<>>)), 1))

\* resolveMCPInputFields: discoverTools(tempServer, measureFn) answered
ResolverToolsDiscovered ==
    /\ pc = "resolveDiscover"
    /\ \E reply \in {FailedReply} \cup {ToolsReply(l) : l \in ToolLists} :
         LET r == Answered(Run, reply)
             found == discoverTools(config.measureFn, reply)
         IN  Become(IF found.err # "" THEN abortResolution(r, found.err)
                    ELSE IF found.null THEN abortResolution(r, "TypeError")
                    ELSE IF Len(found.val) = 0 THEN toField(r, fieldIndex + 1)
                    ELSE [r EXCEPT !.pc = "resolveSelect", !.tools = found.val,
                                   !.calls = Append(@, Call("llm_resolve",
                                              calls[Len(calls)].server, <<>>, Null))])

\* resolveMCPInputFields: the generation asked to pick a tool answered
ResolverToolSelected ==
    /\ pc = "resolveSelect"
    /\ \E reply \in Replies(ResolverSelectionTexts) :
         LET r == Answered(Run, reply)
             response == callLLM(config.measureFn, FALSE, reply)
             tool == selectResolverTool(tools, response)
         IN  Become(IF response.err # "" THEN abortResolution(r, response.err)
                    ELSE IF tool = <<>> THEN toField(r, fieldIndex + 1)
                    ELSE [r EXCEPT !.pc = "resolveParams", !.relevantTools = tool,
                                   !.toolIndex = 1,
                                   !.calls = Append(@, Call("llm_params",
                                              calls[Len(calls)].server, tool[1], Null))])

\* resolveMCPInputFields: generateToolParameters(input, tool, measureFn) answered
ResolverParametersGenerated ==
    /\ pc = "resolveParams"
    /\ \E reply \in Replies(ParameterTexts) :
         LET r == Answered(Run, reply)
             generated == generateToolParameters(config.measureFn, reply)
             params == IF generated.null THEN Null ELSE generated.val
         IN  Become(IF generated.err # "" THEN abortResolution(r, generated.err)
                    ELSE [r EXCEPT !.pc = "resolveInvoke", !.parameters = params,
                                   !.calls = Append(@, Call("invoke", calls[Len(calls)].server,
                                                            relevantTools[toolIndex], params))])

\* the variant that replaces the whole input by the result
assignResolved_everyField(input, key, result) ==
    Obj([i \in 1..Len(input.m) |-> Entry(input.m[i].key, result)])

\* input[key] = result
assignResolved(input, key, result) == SetProp(input, key, result)

\* resolveMCPInputFields: invokeTool(tempServer, tool.name, parameters, measureFn)
\* answered, input[key] = result
ResolverToolInvoked ==
    /\ pc = "resolveInvoke"
    /\ \E reply \in {FailedReply} \cup {ResultReply(v) : v \in ToolResultValues} :
         LET r == Answered(Run, reply)
             invoked == invokeTool(config.measureFn, reply)
             value == IF invoked.null THEN Null ELSE invoked.val
             key == config.inputFormat.shape[fieldIndex].key
         IN  Become(IF invoked.err # "" THEN abortResolution(r, invoked.err)
                    ELSE toField(progressCallback(
                                     [r EXCEPT !.validatedInput = assignResolved(@, key, value)],
                                     Event("input_resolution", key)),
                                 fieldIndex + 1))

\* the generation asked to select servers answered
ServersSelected ==
    /\ pc = "selectServers"
    /\ \E reply \in Replies(ServerSelectionTextsFor(config.servers)) :
         LET r == Answered(Run, reply)
             selected == measure(config.measureFn,
                                 selectRelevantServers(config.measureFn, config.servers, reply))
         IN  Become(IF selected.err # "" THEN Finish(r, selected)
                    ELSE IF selected.null THEN Finish(r, Err("TypeError"))
                    ELSE toDiscovery(progressCallback(
                                         [r EXCEPT !.relevantServers = selected.val],
                                         Event("server_selection", <<>>))))

\* discoverTools(server, measure) answered
ToolsDiscovered ==
    /\ pc = "discover"
    /\ \E reply \in {FailedReply}
                    \cup {ToolsReply(l) : l \in ToolListsOf(relevantServers[serverIndex])} :
         LET r == Answered(Run, reply)
             found == discoverTools(config.measureFn, reply)
         IN  Become(IF found.err # "" THEN abortTools(r, found.err)
                    ELSE IF found.null THEN abortTools(r, "TypeError")
                    ELSE IF Len(found.val) > 0
                        THEN [r EXCEPT !.pc = "selectTools", !.tools = found.val,
                                       !.calls = Append(@, Call("llm_tools",
                                                  r.relevantServers[r.serverIndex], <<>>, Null))]
                    ELSE toServer(r, r.serverIndex + 1))

\* the generation asked to select tools answered
ToolsSelected ==
    /\ pc = "selectTools"
    /\ \E reply \in Replies(ToolSelectionTextsFor(relevantServers[serverIndex])) :
         LET r == Answered(Run, reply)
             selected == selectRelevantTools(config.measureFn, tools, reply)
         IN  /\ (selected.err = "" /\ ~selected.null)
                    => Len(toolInvocations) + Len(selected.val) <= MaxInvocations
             /\ Become(IF selected.err # "" THEN abortTools(r, selected.err)
                       ELSE IF selected.null THEN abortTools(r, "TypeError")
                       ELSE toTool([r EXCEPT !.relevantTools = selected.val], 1))

\* the generation asked for the parameters of a tool answered
ParametersGenerated ==
    /\ pc = "genParams"
    /\ \E reply \in Replies(ParameterTexts) :
         LET r == Answered(Run, reply)
             generated == generateToolParameters(config.measureFn, reply)
             params == IF generated.null THEN Null ELSE generated.val
         IN  Become(IF generated.err # "" THEN abortTools(r, generated.err)
                    ELSE [r EXCEPT !.pc = "invoke", !.parameters = params,
                                   !.calls = Append(@, Call("invoke",
                                              r.relevantServers[r.serverIndex],
                                              r.relevantTools[r.toolIndex], params))])

\* invokeTool(server, tool.name, parameters, measure) answered
ToolInvoked ==
    /\ pc = "invoke"
    /\ \E reply \in {FailedReply}
                    \cup {ResultReply(v) : v \in ToolResultsOf(relevantTools[toolIndex])} :
         LET r == Answered(Run, reply)
             invoked == invokeTool(config.measureFn, reply)
             value == IF invoked.null THEN Null ELSE invoked.val
             server == relevantServers[serverIndex]
             tool == relevantTools[toolIndex]
         IN  Become(IF invoked.err # "" THEN abortTools(r, invoked.err)
                    ELSE toTool([r EXCEPT
                                   !.toolResults = SetProp(@, server \o <<".">> \o tool, value),
                                   !.toolInvocations =
                                       Append(@, [server |-> server, tool |-> tool,
                                                  parameters |-> parameters, result |-> value])],
                                toolIndex + 1))

\* processChunk on the characters of a text from the i-th on; the state
\* after a character is computed before the next character is read
RECURSIVE processText(_, _, _)
processText(st, text, i) ==
    IF i > Len(text) THEN st
    ELSE LET next == processChar(st, text[i])
         IN  IF next.insideTag \in BOOLEAN THEN processText(next, text, i + 1) ELSE next

\* the updates streamingCallback received while the final generation
\* streamed: those of the whole text, when the request was answered
streamed(r, reply) ==
    IF config.streaming /\ reply.ok
    THEN [r EXCEPT !.progress =
             @ \o flushAtEnd(processText(WithOut(NoStream.ext), reply.content, 1)).out]
    ELSE r

\* the final generation answered: generateResponse, the validation of its
\* record against outputFormat, and the return of run
ResponseGenerated ==
    /\ pc = "generate"
    /\ \E reply \in Replies(FinalTextsFor(config.servers)) :
         LET r == Answered(Run, reply)
             response == measure(config.measureFn,
                                 generateResponse(config.measureFn, config.streaming,
                                                  config.outputFormat, reply))
             s == streamed(r, reply)
         IN  Become(IF response.err # "" THEN Finish(s, response)
                    ELSE Finish(s, validatedOrEmpty(config.measureFn, config.outputFormat,
                                                    response)))

Next ==
    \/ Construct
    \/ StartRun
    \/ ResolverToolsDiscovered
    \/ ResolverToolSelected
    \/ ResolverParametersGenerated
    \/ ResolverToolInvoked
    \/ ServersSelected
    \/ ToolsDiscovered
    \/ ToolsSelected
    \/ ParametersGenerated
    \/ ToolInvoked
    \/ ResponseGenerated

Init == InitAgent

Spec == Init /\ [][Next]_vars

----------------------------------------------------------------------------
(* Claims about the Agent                                                  *)

\* what callLLM handed to the method that made the i-th call
ResponseTo(i) == callLLM(config.measureFn, FALSE, calls[i].reply)

\* the response decodes to a record whose outer.inner is a name or a list of names
DecodesToNames(response, outer, inner) ==
    /\ ~response.null
    /\ LET parsed == xmlToObj(response.val)
           names == IF parsed.k = "map" /\ Prop(parsed, outer).k = "map"
                    THEN Prop(Prop(parsed, outer), inner) ELSE Undef
       IN  \/ names.k = "str"
           \/ names.k = "seq" /\ \A j \in 1..Len(names.e) : names.e[j].k = "str"

DiscoveredServers == {calls[j].server : j \in {j \in 1..Len(calls) : calls[j].kind = "discover"}}

\* C4: when servers are configured and the server-selection response is unset
\* or does not decode into a list of server names, the run proceeds with all
\* configured servers, and a run that returns has discovered each of them.
C4_SelectionFallbackAllServers ==
    \A i \in 1..Len(calls) :
        (/\ calls[i].kind = "llm_servers"
         /\ calls[i].answered
         /\ ResponseTo(i).err = ""
         /\ ~DecodesToNames(ResponseTo(i), S_relevant_servers, S_server_names))
            => /\ relevantServers = config.servers
               /\ pc = "returned"
                    => \A j \in 1..Len(config.servers) : config.servers[j] \in DiscoveredServers

\* C5: when the tool-selection response for a server that discovered tools is
\* unset or does not decode into a list of tool names, the first discovered
\* tool of that server is the next to get parameters, and no other tool of
\* that server gets parameters or is invoked.
C5_SelectionFallbackFirstTool ==
    \A i \in 1..Len(calls) :
        (/\ calls[i].kind = "llm_tools"
         /\ calls[i].answered
         /\ ResponseTo(i).err = ""
         /\ ~DecodesToNames(ResponseTo(i), S_selected_tools, S_tool_names))
            => /\ i < Len(calls)
               /\ calls[i + 1].kind = "llm_params"
               /\ calls[i + 1].tool = calls[i - 1].reply.tools[1]
               /\ \A j \in (i + 1)..Len(calls) :
                      (calls[j].kind \in {"llm_params", "invoke"}
                       /\ calls[j].server = calls[i].server)
                          => calls[j].tool = calls[i - 1].reply.tools[1]

HasNoParameters(response) ==
    response.null \/ Prop(xmlToObj(response.val), S_parameters).k = "undef"

\* C6: when the parameter response for a selected tool is unset or decodes to
\* a value without a 'parameters' entry, the next call invokes that tool of
\* that server with the empty parameter set.
C6_ParametersFallbackEmpty ==
    \A i \in 1..Len(calls) :
        (/\ calls[i].kind = "llm_params"
         /\ calls[i].answered
         /\ ResponseTo(i).err = ""
         /\ HasNoParameters(ResponseTo(i)))
            => /\ i < Len(calls)
               /\ calls[i + 1].kind = "invoke"
               /\ calls[i + 1].server = calls[i].server
               /\ calls[i + 1].tool = calls[i].tool
               /\ calls[i + 1].arg = EmptyObj

\* a free-text parameter response was followed by an invocation with empty
\* parameters, and the invocation was answered
C6_Witness ==
    \E i \in 1..Len(calls) :
        /\ calls[i].kind = "llm_params"
        /\ calls[i].reply = TextReply(FreeText)
        /\ i < Len(calls)
        /\ calls[i + 1].kind = "invoke"
        /\ calls[i + 1].answered
        /\ calls[i + 1].reply.ok
        /\ calls[i + 1].arg = EmptyObj
        /\ toolInvocations # <<>>

FinalCallAnswered ==
    /\ calls # <<>>
    /\ calls[Len(calls)].kind = "llm_final"
    /\ calls[Len(calls)].answered

\* C7: when the service answers the final generation with an empty text, the
\* run returns the empty record and does not throw, whatever the output shape.
C7_EmptyResponseReturnsEmpty ==
    (/\ FinalCallAnswered
     /\ calls[Len(calls)].reply.ok
     /\ calls[Len(calls)].reply.content = <<>>)
        => pc = "returned" /\ runResult = Ok(EmptyObj)

\* C8: when the record reconciled from the final generation does not validate
\* against the output shape, the run returns the empty record instead of
\* throwing the validation error.
C8_ValidationFailureReturnsEmpty ==
    (/\ FinalCallAnswered
     /\ LET response == generateResponse(config.measureFn, config.streaming,
                                         config.outputFormat, calls[Len(calls)].reply)
        IN  /\ response.err = ""
            /\ ZodParse(config.outputFormat, response.val).err # "")
        => pc = "returned" /\ runResult = Ok(EmptyObj)

\* value is a record of exactly the kind schema declares, with no other keys
RECURSIVE Conforms(_, _)
Conforms(schema, value) ==
    CASE schema.t = "ZodString" -> value.k = "str"
      [] schema.t = "ZodBoolean" -> value.k = "bool"
      [] schema.t = "ZodNumber" -> value.k = "num"
      [] schema.t = "ZodEnum" ->
            value.k = "str" /\ value.s \in {schema.values[i] : i \in 1..Len(schema.values)}
      [] schema.t = "ZodOptional" -> value.k = "undef" \/ Conforms(schema.inner, value)
      [] schema.t = "ZodNullable" -> value.k = "null" \/ Conforms(schema.inner, value)
      [] schema.t = "ZodArray" ->
            value.k = "seq" /\ \A i \in 1..Len(value.e) : Conforms(schema.element, value.e[i])
      [] OTHER ->
            /\ value.k = "map"
            /\ \A i \in 1..Len(schema.shape) :
                   Conforms(schema.shape[i].schema, Prop(value, schema.shape[i].key))
            /\ \A i \in 1..Len(value.m) :
                   \E j \in 1..Len(schema.shape) : schema.shape[j].key = value.m[i].key

\* C9: every record a run returns conforms to the output shape or is the
\* empty record.
C9_ReturnedRecordValidOrEmpty ==
    (pc = "returned" /\ ~runResult.null)
        => \/ runResult.val = EmptyObj
           \/ Conforms(config.outputFormat, runResult.val)

\* a run returned a non-empty record after a final generation that carried a
\* field of the wrong kind next to the declared ones
C9_Witness ==
    /\ pc = "returned"
    /\ ~runResult.null
    /\ runResult.val # EmptyObj
    /\ FinalCallAnswered
    /\ Prop(xmlToObj(calls[Len(calls)].reply.content), S_other).k # "undef"

\* the shape declares an array at some depth, wrappers included
RECURSIVE HasArray(_)
HasArray(schema) ==
    \/ schema.t = "ZodArray"
    \/ schema.t \in {"ZodOptional", "ZodNullable"} /\ HasArray(schema.inner)
    \/ schema.t = "ZodObject"
        /\ \E i \in 1..Len(schema.shape) : HasArray(schema.shape[i].schema)

\* C10: constructing an Agent throws exactly when its output shape declares
\* an array at some depth, under optional and nullable wrappers too; a run
\* starts only on an Agent that was constructed, so never with such a shape.
C10_NoArrayEnforcement ==
    /\ agent = "rejected" => HasArray(config.outputFormat)
    /\ agent = "constructed" => ~HasArray(config.outputFormat)
    /\ pc # "idle" => agent = "constructed" /\ ~HasArray(config.outputFormat)

\* the constructor threw for an array under wrappers inside an optional record
C10_Witness ==
    /\ agent = "rejected"
    /\ config.outputFormat =
          ZObject(<<Field(S_detail,
                          ZOptional(ZObject(<<Field(S_answer,
                                                  ZNullable(ZOptional(ZArray(ZBoolean))))>>)))>>)

\* C11: when the input does not conform to the input shape, the run makes no
\* remote call at all and ends as a failed run, that is, it throws.
C11_InvalidInputFails ==
    (pc # "idle" /\ ZodParse(config.inputFormat, config.input).err # "")
        => calls = <<>> /\ pc = "threw"

\* the run validated its input and the directive of the input field names an
\* address that validateUrl rejects
DirectiveAddressRejected ==
    /\ pc # "idle"
    /\ ZodParse(config.inputFormat, config.input).err = ""
    /\ \E i \in 1..Len(config.inputFormat.shape) :
           LET m == urlMatch(config.inputFormat.shape[i].description)
           IN  m.found /\ validateUrl(m.url).err # ""

\* the i-th call belongs to the resolution of the input field and failed: the
\* transport failed, or the generation asked to pick a tool named none of the
\* discovered ones
ResolutionFailedAt(i) ==
    /\ calls[i].server = Resolver(K_q)
    /\ calls[i].answered
    /\ \/ ~calls[i].reply.ok
       \/ /\ calls[i].kind = "llm_resolve"
          /\ selectResolverTool(calls[i - 1].reply.tools, ResponseTo(i)) = <<>>

\* C12: when a step of the resolution of a directive field fails (address
\* rejected, discovery, generation, tool choice, parameter generation or
\* invocation), the run does not end at that step and the field keeps the
\* value the caller gave.
C12_ResolutionFailureRecovered ==
    /\ DirectiveAddressRejected
        => /\ pc # "threw"
           /\ validatedInput = ZodParse(config.inputFormat, config.input).val
    /\ \A i \in 1..Len(calls) :
           ResolutionFailedAt(i)
               => /\ ~(pc = "threw" /\ i = Len(calls))
                  /\ Prop(validatedInput, K_q) = Prop(config.input, K_q)

\* the i-th call is an invocation of the tool phase or the final generation
\* and its transport failed
UnrecoveredFailureAt(i) ==
    /\ calls[i].answered
    /\ ~calls[i].reply.ok
    /\ \/ calls[i].kind = "llm_final"
       \/ calls[i].kind = "invoke" /\ calls[i].server # Resolver(K_q)

\* C13: when an invocation of the tool phase or the final generation fails at
\* transport level, the run throws, and no invocation and no generation call
\* follows the failed call.
C13_UnrecoveredFailurePropagates ==
    \A i \in 1..Len(calls) :
        UnrecoveredFailureAt(i)
            => /\ pc = "threw"
               /\ \A j \in (i + 1)..Len(calls) : calls[j].kind = "discover"

\* the phase of run a call belongs to: 1 field resolution, 2 server
\* selection, 3 the tool phase, 4 the final generation
PhaseOf(call) ==
    CASE call.server = Resolver(K_q) -> 1
      [] call.kind = "llm_servers" -> 2
      [] call.kind = "llm_final" -> 4
      [] OTHER -> 3

\* the position of a server in relevantServers, 0 when it was not selected
PlaceOf(server) ==
    IF \E k \in 1..Len(relevantServers) : relevantServers[k] = server
    THEN SetMin({k \in 1..Len(relevantServers) : relevantServers[k] = server})
    ELSE 0

\* the i-th call follows, for the same server, a call of one of the kinds
FollowsOneOf(i, kinds) ==
    /\ i > 1
    /\ calls[i - 1].kind \in kinds
    /\ calls[i - 1].server = calls[i].server

\* C14: the remote calls of a run never overlap and follow the fixed order:
\* none before the input validated, then field resolution, server selection,
\* for each selected server in turn discovery, tool selection and for each
\* tool parameters then invocation, then the final generation, and a record is
\* returned only after it; every call for a server is answered before the
\* discovery of a later selected server starts.
C14_FixedSequentialFlow ==
    /\ calls # <<>> => ZodParse(config.inputFormat, config.input).err = ""
    /\ \A i \in 1..(Len(calls) - 1) : calls[i].answered
    /\ pc \in {"returned", "threw"} => \A i \in 1..Len(calls) : calls[i].answered
    /\ \A i \in 1..Len(calls) : \A j \in i..Len(calls) :
           /\ PhaseOf(calls[i]) <= PhaseOf(calls[j])
           /\ (PhaseOf(calls[i]) = 3 /\ PhaseOf(calls[j]) = 3)
                  => /\ PlaceOf(calls[i].server) >= 1
                     /\ PlaceOf(calls[i].server) <= PlaceOf(calls[j].server)
           /\ (i < j /\ calls[i].kind = calls[j].kind)
                  => calls[i].kind \notin {"llm_servers", "llm_final"}
           /\ (i < j /\ calls[i].kind = calls[j].kind /\ calls[i].server = calls[j].server)
                  => calls[i].kind \notin {"discover", "llm_tools", "llm_resolve"}
    /\ \A i \in 1..Len(calls) :
           /\ calls[i].kind \in {"llm_tools", "llm_resolve"} => FollowsOneOf(i, {"discover"})
           /\ calls[i].kind = "llm_params"
                  => FollowsOneOf(i, {"llm_tools", "llm_resolve", "invoke"})
           /\ calls[i].kind = "invoke"
                  => FollowsOneOf(i, {"llm_params"}) /\ calls[i - 1].tool = calls[i].tool
           /\ calls[i].kind = "llm_final" => i = Len(calls)
    /\ (pc = "returned" /\ ~runResult.null) => FinalCallAnswered

\* a run returned a record after it selected two servers and, for each in
\* turn, discovered its tools, selected one, generated parameters and invoked it
C14_Witness ==
    /\ pc = "returned"
    /\ ~runResult.null
    /\ relevantServers = <<Server1, Server2>>
    /\ Len(toolInvocations) = 2
    /\ toolInvocations[1].server = Server1
    /\ toolInvocations[2].server = Server2
    /\ Len(calls) = 10

----------------------------------------------------------------------------
(* More claims about the streaming extractor                               *)

\* no text of the document holds an angle bracket: its markup is its tags
RECURSIVE WellNested(_)
WellNested(nodes) ==
    \A i \in 1..Len(nodes) :
        IF nodes[i].k = "text"
        THEN ~includes(nodes[i].t, "<") /\ ~includes(nodes[i].t, ">")
        ELSE WellNested(nodes[i].kids)

\* the text of a document without its tags and without the text outside
\* every tag, in document order
RECURSIVE InsideText(_, _)
InsideText(nodes, open) ==
    IF nodes = <<>> THEN <<>>
    ELSE (IF Head(nodes).k = "text" THEN (IF open THEN Head(nodes).t ELSE <<>>)
          ELSE InsideText(Head(nodes).kids, TRUE))
         \o InsideText(Tail(nodes), open)

\* the values of all updates, concatenated in emission order
AllValues(ups) == Flatten([i \in 1..Len(ups) |-> ups[i].value])

IsPrefix(s, t) == Len(s) <= Len(t) /\ SubSeq(t, 1, Len(s)) = s

C16_ProgressiveBuilding ==
    \A i \in 1..Len(updates) : \A j \in (i + 1)..Len(updates) :
        (/\ updates[i].field = updates[j].field
         /\ \A k \in (i + 1)..(j - 1) : updates[k].field # updates[i].field)
            => Len(updates[j].value) >= Len(updates[i].value)

\* the fields a document of nested tags answers: a tag without nested tags
\* is a described string, a tag with nested tags a record of its tags
RECURSIVE FieldsOf(_)
FieldsOf(nodes) ==
    IF nodes = <<>> THEN <<>>
    ELSE (IF Head(nodes).k = "text" THEN <<>>
          ELSE <<IF \A i \in 1..Len(Head(nodes).kids) : Head(nodes).kids[i].k = "text"
                 THEN Described(Field(Head(nodes).name, ZString), <<"d">>)
                 ELSE Field(Head(nodes).name, ZObject(FieldsOf(Head(nodes).kids)))>>)
         \o FieldsOf(Tail(nodes))

\* the output shape whose fields are the outermost tags of the document
ShapeOfTags == ZObject(FieldsOf(sdoc))

\* the output shape whose fields are the tags inside the only outermost tag
ShapeInsideRoot ==
    IF Len(sdoc) = 1 /\ sdoc[1].k = "elem" THEN ZObject(FieldsOf(sdoc[1].kids))
    ELSE ZObject(<<>>)

\* generateResponse, streaming, makes of the text a record that validates
\* against the shape and is not empty
Accepts(shape) ==
    LET response == generateResponse("mockMeasure", TRUE, shape, TextReply(sinput))
    IN  /\ response.err = ""
        /\ response.val # EmptyObj
        /\ ZodParse(shape, response.val).err = ""

\* the paths of the texts inside tags that are not empty, in document order
RECURSIVE TextPaths(_, _)
TextPaths(nodes, prefix) ==
    IF nodes = <<>> THEN <<>>
    ELSE (IF Head(nodes).k = "text"
          THEN (IF prefix # <<>> /\ Head(nodes).t # <<>> THEN <<prefix>> ELSE <<>>)
          ELSE TextPaths(Head(nodes).kids,
                         IF prefix = <<>> THEN Head(nodes).name
                         ELSE prefix \o <<"_">> \o Head(nodes).name))
         \o TextPaths(Tail(nodes), prefix)

\* a sequence without the elements that repeat the one before
RECURSIVE Collapse(_)
Collapse(s) ==
    IF Len(s) <= 1 THEN s
    ELSE IF s[1] = s[2] THEN Collapse(Tail(s))
    ELSE <<s[1]>> \o Collapse(Tail(s))

\* the fields of the updates follow the paths of the texts of the document
FieldsFollowOpenTags ==
    Collapse([i \in 1..Len(updates) |-> updates[i].field]) = Collapse(TextPaths(sdoc, <<>>))

\* every leaf tag of the document that got updates has, under the path of the
\* updates, its line among the field descriptions of the shape
LeafPathsDescribedIn(shape) ==
    \A i \in 1..Len(DocTags) :
        (DocTags[i].leaf /\ HasUpdates(DocTags[i].path))
            => \E k \in 1..Len(getFieldDescriptions(shape, <<>>)) :
                   getFieldDescriptions(shape, <<>>)[k]
                       = <<"-", " ">> \o DocTags[i].path \o S_SHOULD_be \o <<"d">>

----------------------------------------------------------------------------
(* More claims about the codec                                             *)

\* C18: sanitizing the tag that sanitizing a name returned gives that tag
\* again; the tag depends on the name alone.
C18_SanitizeIdempotent ==
    /\ Len(ttags) >= 1 => ttags[1] = sanitizeTagName(tname)
    /\ Len(ttags) = 2 => ttags[2] = ttags[1]

\* a name with a leading digit and a hyphen was sanitized twice
C18_Witness ==
    /\ tname = <<"1", "-", "a">>
    /\ ttags = <<S_tag_ \o <<"1", "_", "a">>, S_tag_ \o <<"1", "_", "a">>>>

\* the texts between each '<' and the next '>' of a text, without the '/' of
\* a closing tag
RECURSIVE TagNamesIn(_)
TagNamesIn(text) ==
    IF ~includes(text, "<") THEN {}
    ELSE LET rest == SubSeq(text, IndexOf(text, "<") + 1, Len(text))
         IN  IF ~includes(rest, ">") THEN {rest}
             ELSE LET inside == SubSeq(rest, 1, IndexOf(rest, ">") - 1)
                  IN  {IF startsWith(inside, "/") THEN Tail(inside) ELSE inside}
                        \cup TagNamesIn(SubSeq(rest, IndexOf(rest, ">") + 1, Len(rest)))

SafeTagName(name) ==
    /\ name # <<>>
    /\ name[1] \in Letters
    /\ \A i \in 1..Len(name) : name[i] \in Letters \cup Digits \cup {"_"}

\* C19: every opening and closing tag of the text objToXml returns has a name
\* made of letters, digits and '_' that starts with a letter.
C19_EveryTagSanitized ==
    cpc \in {"encoded", "decoded"} => \A name \in TagNamesIn(cxml) : SafeTagName(name)

\* the value without its null and undefined mapping entries and sequence
\* elements, at every depth
RECURSIVE WithoutNullish(_)
WithoutNullish(v) ==
    CASE v.k = "seq" ->
            LET kept == SelectSeq(v.e, LAMBDA x : x.k \notin {"null", "undef"})
            IN  Arr([i \in 1..Len(kept) |-> WithoutNullish(kept[i])])
      [] v.k = "map" ->
            LET kept == SelectSeq(v.m, LAMBDA en : en.val.k \notin {"null", "undef"})
            IN  Obj([i \in 1..Len(kept) |-> Entry(kept[i].key, WithoutNullish(kept[i].val))])
      [] OTHER -> v

\* C20: the text objToXml returns for a mapping or a sequence is the text it
\* returns for the same value without its null and undefined entries and
\* elements: they add no tag and no text.
C20_NullishNeverSerialized ==
    (cpc \in {"encoded", "decoded"} /\ cv.k \in {"seq", "map"})
        => cxml = objToXml(WithoutNullish(cv), <<>>)

\* the value {a: {b: "x", c: [1, 2]}}
NestedExample ==
    Obj(<<Entry(K_a, Obj(<<Entry(K_b, Str(<<"x">>)), Entry(K_c, Arr(<<One, Two>>))>>))>>)

\* the text <a><b>x</b><c><item>1</item><item>2</item></c></a>
NestedExampleText ==
    Tag(K_a, Tag(K_b, <<"x">>) \o Tag(K_c, Tag(S_item, <<"1">>) \o Tag(S_item, <<"2">>)))

\* C21: objToXml({a: {b: "x", c: [1, 2]}}) is exactly
\* <a><b>x</b><c><item>1</item><item>2</item></c></a>, and xmlToObj of that
\* text is {a: {b: "x", c: [1, 2]}} again.
C21_LiteralEncoding ==
    cv = NestedExample
        => /\ cpc \in {"encoded", "decoded"} => cxml = NestedExampleText
           /\ cpc = "decoded" => cdec = NestedExample

\* the example was encoded and decoded
C21_Witness ==
    /\ cv = NestedExample
    /\ cpc = "decoded"
    /\ cxml = NestedExampleText
    /\ cdec = cv

----------------------------------------------------------------------------
(* Decoding of received text                                               *)

MaxPieces == 4

MaxSiblings == 3

TextPieces ==
    {<<"<", "a", ">">>, <<"<", "/", "a", ">">>, <<"<">> \o S_item \o <<">">>,
     <<"<", "/">> \o S_item \o <<">">>, <<"x">>, <<"1">>, <<" ">>, <<"<">>}

\* the concatenations of at most n pieces
RECURSIVE PieceTexts(_)
PieceTexts(n) ==
    IF n = 0 THEN {<<>>}
    ELSE LET P == PieceTexts(n - 1) IN P \cup {p \o q : p \in P, q \in TextPieces}

SiblingElements ==
    {Tag(K_a, <<"x">>), Tag(K_a, <<"1">>), Tag(K_a, <<>>), Tag(K_a, Tag(S_item, <<"1">>)),
     Tag(K_a, Tag(K_b, <<"x">>)), Tag(K_b, <<"x">>), Tag(S_item, <<"x">>),
     Tag(S_item, Tag(S_item, <<"1">>))}

\* the texts of one to n elements side by side
RECURSIVE SiblingTexts(_)
SiblingTexts(n) ==
    IF n = 1 THEN SiblingElements
    ELSE LET P == SiblingTexts(n - 1) IN P \cup {p \o q : p \in P, q \in SiblingElements}

\* tags with attributes, a name that has a shorter closing tag, mismatched
\* and self-closing tags, text around an element
OddTexts ==
    {<<"<", "a", " ", "b", ">", "x", "<", "/", "a", ">">>,
     <<"<", "a", "b", ">", "x", "<", "/", "a", ">">>,
     <<"<", "a", ">", "x", "<", "/", "b", ">">>,
     <<"<", "a", "/", ">">>,
     <<"x">> \o Tag(K_a, <<"1">>) \o <<"y">>,
     <<" ", "<", "a", ">", " ">>,
     Tag(K_a, <<"t", "r", "u", "e">>) \o Tag(K_a, <<"f", "a", "l", "s", "e">>)}

DecodeTexts ==
    PieceTexts(MaxPieces) \cup SiblingTexts(MaxSiblings)
        \cup {Tag(K_c, t) : t \in SiblingTexts(MaxSiblings)} \cup OddTexts

InitDecode ==
    /\ cpc = "received"
    /\ cv = Null
    /\ cxml \in DecodeTexts
    /\ cdec = Null
    /\ tname = <<>>
    /\ ttags = <<>>
    /\ StreamIdle
    /\ AgentIdle
    /\ PaymentIdle

\* xmlToObj(xml) on a text that was not produced by objToXml
DecodeText ==
    /\ cpc = "received"
    /\ cdec' = xmlToObj(cxml)
    /\ cpc' = "decoded"
    /\ UNCHANGED <<cv, cxml, tname, ttags>>
    /\ UNCHANGED streamVars
    /\ UNCHANGED agentVars
    /\ UNCHANGED payVars

SpecDecode == InitDecode /\ [][DecodeText]_vars

\* some opening tag of the text has a closing tag of its name after it
HasTagPair(t) ==
    \E i \in {m \in 1..Len(t) : t[m] = "<"} :
        \E g \in {m \in (i + 1)..Len(t) : t[m] = ">"} :
            /\ \A m \in (i + 1)..(g - 1) : t[m] # ">"
            /\ \E n \in 1..(g - 1 - i) :
                /\ \A m \in (i + 1)..(i + n) : t[m] \notin WS \cup {"/"}
                /\ \E j \in (g + 1)..(Len(t) - n - 2) :
                    SubSeq(t, j, j + n + 2) = <<"<", "/">> \o SubSeq(t, i + 1, i + n) \o <<">">>

\* C22: xmlToObj returns a value for every text and never throws; for a text
\* that holds '<' but no opening tag with a matching closing tag the value is
\* the trimmed text itself, as a string.
C22_DecodeTotal ==
    cpc = "decoded"
        => /\ cdec.k \in {"str", "seq", "map"}
           /\ ~HasTagPair(cxml) => cdec = Str(trim(cxml))

\* a text with '<' and no tag pair was decoded to itself, trimmed
C22_Witness ==
    /\ cpc = "decoded"
    /\ includes(cxml, "<")
    /\ ~HasTagPair(cxml)
    /\ trim(cxml) # cxml
    /\ cdec = Str(trim(cxml))

\* the tag pairs the decoder finds in a content, in order
RECURSIVE Occurrences(_, _)
Occurrences(content, from) ==
    LET m == NextMatch(content, from)
    IN  IF ~m.ok THEN <<>> ELSE <<m>> \o Occurrences(content, m.next)

\* the decoded values of the occurrences of one tag name, in order
RECURSIVE ValuesNamed(_, _)
ValuesNamed(occ, name) ==
    IF occ = <<>> THEN <<>>
    ELSE (IF Head(occ).name = name THEN <<childOf(Head(occ).inner)>> ELSE <<>>)
            \o ValuesNamed(Tail(occ), name)

\* value, decoded from the tag pairs occ of one level, holds under every name
\* that occurs twice or more the sequence of the values of its occurrences
AggregatedAt(occ, value) ==
    \A i \in 1..Len(occ) :
        LET name == occ[i].name
            values == ValuesNamed(occ, name)
        IN  Len(values) >= 2
                => IF \A o \in 1..Len(occ) : occ[o].name = S_item
                   THEN value = Arr(values)
                   ELSE value.k = "map" /\ Prop(value, name) = Arr(values)

\* C23: a tag name that occurs k >= 2 times at one nesting level is decoded to
\* the sequence of the k decoded values in order of occurrence, none lost or
\* overwritten, also when the tag is not named item.
C23_RepeatedTagsAggregate ==
    cpc = "decoded"
        => LET occ == Occurrences(trim(cxml), 1)
           IN  /\ AggregatedAt(occ, cdec)
               /\ Len(occ) = 1 /\ occ[1].name # S_item /\ includes(trim(occ[1].inner), "<")
                    => AggregatedAt(Occurrences(trim(occ[1].inner), 1), Prop(cdec, occ[1].name))

\* the text the final generation call returned
FinalText == calls[Len(calls)].reply.content

\* the record generateResponse builds from the text of the final call
Reconciled ==
    generateResponse(config.measureFn, config.streaming, config.outputFormat,
                     calls[Len(calls)].reply)

\* whether the decoded value is a mapping of one key whose value is a mapping
SingleRootMapping(decoded) ==
    decoded.k = "map" /\ Len(decoded.m) = 1 /\ decoded.m[1].val.k = "map"

\* the decoded response, a single root mapping unwrapped once
UnwrappedSource(text) ==
    LET decoded == xmlToObj(text)
    IN  IF SingleRootMapping(decoded) THEN decoded.m[1].val ELSE decoded

\* a declared plain-text field whose decoded value is structured
ReExtracted(field, source) ==
    /\ getSchemaTypeName(field.schema) = "ZodString"
    /\ Prop(source, field.key).k \in {"seq", "map"}

FinalTextDecoded ==
    /\ FinalCallAnswered
    /\ calls[Len(calls)].reply.ok
    /\ FinalText # <<>>

\* C24: the reconciled record holds each declared top-level field that the
\* decoded response has, a single root mapping unwrapped once, with its decoded
\* value; it omits every declared field the source lacks, without error, and
\* holds no key that is not declared.
C24_ExactlyDeclaredFields ==
    FinalTextDecoded
        => LET source == UnwrappedSource(FinalText)
               shape == config.outputFormat.shape
           IN  /\ Reconciled.err = "" /\ ~Reconciled.null /\ Reconciled.val.k = "map"
               /\ \A i \in 1..Len(shape) :
                    IF Prop(source, shape[i].key).k = "undef"
                    THEN Prop(Reconciled.val, shape[i].key).k = "undef"
                    ELSE \/ Prop(Reconciled.val, shape[i].key) = Prop(source, shape[i].key)
                         \/ /\ ReExtracted(shape[i], source)
                            /\ Prop(Reconciled.val, shape[i].key).k = "str"
               /\ \A e \in 1..Len(Reconciled.val.m) :
                    \E i \in 1..Len(shape) : shape[i].key = Reconciled.val.m[e].key

\* the tag pairs of the level the declared fields are read from
FieldOccurrences(text) ==
    LET occ == Occurrences(trim(text), 1)
    IN  IF SingleRootMapping(xmlToObj(text)) THEN Occurrences(trim(occ[1].inner), 1) ELSE occ

\* the text between the opening and the closing tag of the field itself
OwnContent(text, key) ==
    LET occ == FieldOccurrences(text)
    IN  occ[SetMin({i \in 1..Len(occ) : occ[i].name = key})].inner

\* C25: a declared plain-text field that decodes to a structured value is
\* reconciled to the raw text of the response between the field's own opening
\* and closing tag; every other field keeps its decoded value.
C25_RawReExtraction ==
    FinalTextDecoded /\ Reconciled.err = "" /\ ~Reconciled.null
        => LET source == UnwrappedSource(FinalText)
               shape == config.outputFormat.shape
           IN  \A i \in 1..Len(shape) :
                   Prop(Reconciled.val, shape[i].key).k # "undef"
                       => IF ReExtracted(shape[i], source)
                          THEN Prop(Reconciled.val, shape[i].key)
                                    = Str(OwnContent(FinalText, shape[i].key))
                          ELSE Prop(Reconciled.val, shape[i].key) = Prop(source, shape[i].key)

\* the invocations the tool phase performed so far, in order
InvokeCalls ==
    SelectSeq(calls, LAMBDA c : c.kind = "invoke" /\ c.answered /\ c.server # Resolver(K_q))

\* what an invocation returned to the run
ResultOf(call) == IF call.reply.ok THEN call.reply.result ELSE Null

\* the tool phase is over: the final generation call was made
ToolPhaseOver == \E i \in 1..Len(calls) : calls[i].kind = "llm_final"

\* C26: after the tool phase there is one invocation record {provider,
\* capability, parameters, result} per invocation performed, in invocation
\* order, and the accumulated results hold under the key
\* providerName.capabilityName the result of each invoked capability, so that
\* distinct invoked (provider, capability) pairs keep distinct results.
C26_ToolResultsRecordedAndKeyed ==
    ToolPhaseOver
        => /\ Len(toolInvocations) = Len(InvokeCalls)
           /\ \A i \in 1..Len(InvokeCalls) :
                /\ toolInvocations[i] = [server |-> InvokeCalls[i].server,
                                         tool |-> InvokeCalls[i].tool,
                                         parameters |-> InvokeCalls[i].arg,
                                         result |-> ResultOf(InvokeCalls[i])]
                /\ (\A j \in (i + 1)..Len(InvokeCalls) :
                        <<InvokeCalls[j].server, InvokeCalls[j].tool>>
                            # <<InvokeCalls[i].server, InvokeCalls[i].tool>>)
                    => Prop(toolResults, InvokeCalls[i].server \o <<".">> \o InvokeCalls[i].tool)
                            = ResultOf(InvokeCalls[i])

\* whether pat occurs in text
ContainsText(text, pat) ==
    \/ pat = <<>>
    \/ \E i \in 1..(Len(text) - Len(pat) + 1) :
            text[i] = pat[1] /\ SubSeq(text, i, i + Len(pat) - 1) = pat

\* the prompt of the final generation call
FinalPrompt ==
    calls[SetMin({i \in 1..Len(calls) : calls[i].kind = "llm_final"})].arg

\* a result that is neither null, undefined, the empty string nor the empty record
NonEmptyResult(result) ==
    /\ result.k \notin {"null", "undef"}
    /\ result # Str(<<>>)
    /\ result # EmptyObj

\* whether the prompt has a context tag
HasContext(prompt) == ContainsText(prompt, <<"<">> \o S_context \o <<">">>)

\* C27: the final prompt has a context block exactly when some accumulated
\* tool result is neither null, undefined, the empty string nor the empty
\* record; the block then holds all accumulated tool results.
C27_ContextIffSomeResult ==
    ToolPhaseOver
        => /\ HasContext(FinalPrompt)
                <=> \E i \in 1..Len(toolResults.m) : NonEmptyResult(toolResults.m[i].val)
           /\ HasContext(FinalPrompt)
                => /\ ContainsText(FinalPrompt,
                                   Tag(S_context, objToXml(toolResults, S_tool_results)))
                   /\ \A i \in 1..Len(toolResults.m) :
                        toolResults.m[i].val.k \notin {"null", "undef"}
                            => ContainsText(objToXml(toolResults, S_tool_results),
                                            objToXml(Obj(<<toolResults.m[i]>>), <<>>))

\* a prompt whose context block holds a result and an empty result
C27_Witness ==
    /\ ToolPhaseOver
    /\ Len(toolResults.m) = 2
    /\ toolResults.m[1].val = Str(<<"r">>)
    /\ toolResults.m[2].val = EmptyObj
    /\ ContainsText(FinalPrompt, Tag(S_context, objToXml(toolResults, S_tool_results)))

\* the fields of a shape at every depth, each as the indices that lead to it
RECURSIVE NodesOf(_)
NodesOf(shape) ==
    UNION {{<<i>>} \cup (IF Unwrapped(shape[i].schema).t = "ZodObject"
                         THEN {<<i>> \o p : p \in NodesOf(Unwrapped(shape[i].schema).shape)}
                         ELSE {}) : i \in 1..Len(shape)}

RECURSIVE FieldAt(_, _)
FieldAt(shape, node) ==
    IF Len(node) = 1 THEN shape[node[1]]
    ELSE FieldAt(Unwrapped(shape[node[1]].schema).shape, Tail(node))

\* the keys from the top of the shape down to the field, joined with '_'
RECURSIVE PathTo(_, _)
PathTo(shape, node) ==
    IF Len(node) = 1 THEN shape[node[1]].key
    ELSE shape[node[1]].key \o <<"_">>
            \o PathTo(Unwrapped(shape[node[1]].schema).shape, Tail(node))

\* depth-first order in declaration order, a parent before its children
ListedBefore(p, q) ==
    /\ p # q
    /\ \/ Len(p) < Len(q) /\ SubSeq(q, 1, Len(p)) = p
       \/ \E k \in 1..Len(p) :
            /\ k <= Len(q)
            /\ SubSeq(p, 1, k - 1) = SubSeq(q, 1, k - 1)
            /\ p[k] < q[k]

\* the constraint of a field: of a boolean, of an enum, none otherwise
ConstraintOf(field) ==
    LET kind == Unwrapped(field.schema)
    IN  IF kind.t = "ZodBoolean" THEN S_either_true_or_false
        ELSE IF kind.t = "ZodEnum"
            THEN S_exactly_one_of
                    \o Join([i \in 1..Len(kind.values) |->
                                <<"\"">> \o kind.values[i] \o <<"\"">>], <<",", " ">>)
        ELSE <<>>

\* what a line says of its field
SaidOf(field) ==
    IF field.description # <<>> /\ ConstraintOf(field) # <<>>
    THEN field.description \o <<".", " ">> \o S_Must_be \o ConstraintOf(field)
    ELSE IF field.description # <<>> THEN field.description
    ELSE S_Must_be \o ConstraintOf(field)

HasLine(field) == field.description # <<>> \/ ConstraintOf(field) # <<>>

\* lines is the list of the lines of the fields of shape that have one
ListsFields(lines, shape) ==
    LET listed == {n \in NodesOf(shape) : HasLine(FieldAt(shape, n))}
    IN  /\ Len(lines) = Cardinality(listed)
        /\ \A n \in listed :
             lines[1 + Cardinality({m \in listed : ListedBefore(m, n)})]
                = <<"-", " ">> \o PathTo(shape, n) \o S_SHOULD_be \o SaidOf(FieldAt(shape, n))

\* C28: getFieldDescriptions lists the fields depth-first in declaration
\* order, a parent before its children, names a nested field by the path of
\* its ancestors and its key joined with '_', and says of each field
\* '<description>. Must be <constraint>', the description alone or 'Must be
\* <constraint>' alone; a boolean has the "true"/"false" constraint, an enum
\* its declared values quoted, a record no constraint, and a field with neither
\* description nor constraint has no line.
C28_FieldConstraintLines ==
    ToolPhaseOver
        => ListsFields(getFieldDescriptions(config.outputFormat, <<>>),
                       config.outputFormat.shape)

\* the lines of a shape with described fields, a boolean and a nested record
C28_Witness ==
    /\ ToolPhaseOver
    /\ Len(getFieldDescriptions(config.outputFormat, <<>>)) = 4
    /\ getFieldDescriptions(config.outputFormat, <<>>)[2]
        = <<"-", " ">> \o K_ok \o S_SHOULD_be \o <<"d", ".", " ">> \o S_Must_be
            \o S_either_true_or_false
    /\ getFieldDescriptions(config.outputFormat, <<>>)[3]
        = <<"-", " ">> \o S_detail \o S_SHOULD_be \o <<"e">>
    /\ getFieldDescriptions(config.outputFormat, <<>>)[4]
        = <<"-", " ">> \o S_detail \o <<"_">> \o K_ok \o S_SHOULD_be \o S_Must_be
            \o S_either_true_or_false
    /\ ContainsText(FinalPrompt, Join(getFieldDescriptions(config.outputFormat, <<>>), <<"\n">>))

\* skeleton has the keys of shape, a skeleton under every record field and ''
\* under every other field
RECURSIVE Mirrors(_, _)
Mirrors(skeleton, shape) ==
    /\ skeleton.k = "map"
    /\ Len(skeleton.m) = Len(shape)
    /\ \A i \in 1..Len(shape) :
         /\ skeleton.m[i].key = shape[i].key
         /\ IF Unwrapped(shape[i].schema).t = "ZodObject"
            THEN Mirrors(skeleton.m[i].val, Unwrapped(shape[i].schema).shape)
            ELSE skeleton.m[i].val = Str(<<>>)

\* C29: the skeleton of the output shape has exactly the keys of the shape at
\* every depth, a recursively built skeleton under every nested-record field,
\* also one wrapped in optional or nullable, and the empty string under every
\* scalar field.
C29_SkeletonMirrorsShape ==
    ToolPhaseOver
        => Mirrors(getOutputFormatDescription(config.outputFormat), config.outputFormat.shape)

\* the skeleton of a shape with a nullable record went into the prompt
C29_Witness ==
    /\ ToolPhaseOver
    /\ \E i \in 1..Len(config.outputFormat.shape) :
         /\ config.outputFormat.shape[i].schema.t = "ZodNullable"
         /\ config.outputFormat.shape[i].schema.inner.t = "ZodObject"
         /\ getOutputFormatDescription(config.outputFormat).m[i].val
                = Obj(<<Entry(K_b, Str(<<>>)), Entry(K_ok, Str(<<>>))>>)
    /\ ContainsText(FinalPrompt,
                    objToXml(getOutputFormatDescription(config.outputFormat), S_output_format))

----------------------------------------------------------------------------
(* Two runs of one Agent and two streaming calls, interleaved at awaits    *)

PairConfigs ==
    [outputFormat : {AnswerShape}, servers : {PairServers},
     measureFn : {"measure", "mockMeasure"}, streaming : {FALSE},
     input : {Obj(<<Entry(K_q, Str(<<"x">>))>>)}, inputFormat : {InputFormat}]

PairDocs ==
    {<<Elem(K_a, <<TextNode(<<"x", "y", " ">>)>>)>>,
     <<Elem(K_b, <<Elem(K_c, <<TextNode(<<"x">>)>>)>>)>>}

\* the variant in which the invocation records belong to the Agent
Resume_sharedInvocations(own, current) ==
    [own EXCEPT !.toolInvocations = current.toolInvocations]

\* the locals a run finds when it resumes after an await, current being the
\* locals of the run that was executing: those it declared itself
Resume(own, current) == own

\* the locals a streaming call finds when its next chunk arrives: its own
ResumeStream(own, current) == own

\* the locals of the streaming call that is executing
StreamRun ==
    [spc |-> spc, sdoc |-> sdoc, sinput |-> sinput, spos |-> spos,
     fullResponse |-> fullResponse, ext |-> ext, updates |-> updates]

\* two calls agent.run(input) on one Agent, none started
InitPairRuns ==
    /\ agent = "new"
    /\ config \in PairConfigs
    /\ pc = "idle"
    /\ relevantServers = <<>>
    /\ serverIndex = 0
    /\ tools = <<>>
    /\ relevantTools = <<>>
    /\ toolIndex = 0
    /\ parameters = Null
    /\ toolResults = EmptyObj
    /\ toolInvocations = <<>>
    /\ calls = <<>>
    /\ runResult = NullResult
    /\ validatedInput = Null
    /\ fieldIndex = 0
    /\ progress = <<>>
    /\ otherRun = [NoRun EXCEPT !.pc = "idle"]
    /\ CodecIdle
    /\ StreamIdle
    /\ PaymentIdle

\* two streaming calls of callLLM in flight
InitPairStreams ==
    /\ spc = "streaming"
    /\ sdoc \in PairDocs
    /\ sinput = Render(sdoc)
    /\ spos = 0
    /\ fullResponse = <<>>
    /\ ext = NoStream.ext
    /\ updates = <<>>
    /\ \E d \in PairDocs :
         otherStream = [NoStream EXCEPT !.spc = "streaming", !.sdoc = d, !.sinput = Render(d)]
    /\ CodecIdle
    /\ AgentIdle
    /\ PaymentIdle

InitPair == InitPairRuns \/ InitPairStreams

\* the run that was executing awaits, the other run resumes
SwitchRun ==
    /\ agent = "constructed"
    /\ otherRun.pc # "off"
    /\ LET r == Resume(otherRun, Run)
       IN  /\ pc' = r.pc
           /\ relevantServers' = r.relevantServers
           /\ serverIndex' = r.serverIndex
           /\ tools' = r.tools
           /\ relevantTools' = r.relevantTools
           /\ toolIndex' = r.toolIndex
           /\ parameters' = r.parameters
           /\ toolResults' = r.toolResults
           /\ toolInvocations' = r.toolInvocations
           /\ calls' = r.calls
           /\ runResult' = r.runResult
           /\ validatedInput' = r.validatedInput
           /\ fieldIndex' = r.fieldIndex
           /\ progress' = r.progress
    /\ otherRun' = Run
    /\ UNCHANGED <<agent, config>>
    /\ UNCHANGED codecVars
    /\ UNCHANGED streamVars
    /\ UNCHANGED payVars

\* the streaming call that was executing awaits its reader, the other one
\* receives its next chunk
SwitchStream ==
    /\ spc # "off"
    /\ otherStream.spc # "off"
    /\ LET r == ResumeStream(otherStream, StreamRun)
       IN  /\ spc' = r.spc
           /\ sdoc' = r.sdoc
           /\ sinput' = r.sinput
           /\ spos' = r.spos
           /\ fullResponse' = r.fullResponse
           /\ ext' = r.ext
           /\ updates' = r.updates
    /\ otherStream' = StreamRun
    /\ UNCHANGED codecVars
    /\ UNCHANGED agentVars
    /\ UNCHANGED payVars

NextPair ==
    \/ Construct
    \/ StartRun
    \/ ServersSelected
    \/ ToolsDiscovered
    \/ ToolsSelected
    \/ ParametersGenerated
    \/ ToolInvoked
    \/ ResponseGenerated
    \/ SwitchRun
    \/ ProcessChunk
    \/ EndOfStream
    \/ SwitchStream

SpecPair == InitPair /\ [][NextPair]_vars

\* the invocations a run performed, read off its own calls
OwnInvocations(r) ==
    SelectSeq(r.calls, LAMBDA c : /\ c.kind = "invoke"
                                  /\ c.answered
                                  /\ c.server # Resolver(K_q)
                                  /\ invokeTool(config.measureFn, c.reply).err = "")

\* what the run alone records for the answer to an invocation
RecordedAlone(call) ==
    IF invokeTool(config.measureFn, call.reply).null THEN Null
    ELSE invokeTool(config.measureFn, call.reply).val

\* the results accumulated from a list of invocations, starting from acc
RECURSIVE Accumulated(_, _)
Accumulated(invocations, acc) ==
    IF invocations = <<>> THEN acc
    ELSE Accumulated(Tail(invocations),
                     SetProp(acc, Head(invocations).server \o <<".">> \o Head(invocations).tool,
                             RecordedAlone(Head(invocations))))

\* what a run alone returns for the answer to its final generation call
AloneReturns(reply) ==
    LET response == measure(config.measureFn,
                            generateResponse(config.measureFn, config.streaming,
                                             config.outputFormat, reply))
    IN  measure(config.measureFn,
                IF response.err # "" THEN response
                ELSE validatedOrEmpty(config.measureFn, config.outputFormat, response))

\* the locals of the run r are what the answers to its own calls make them
AsAlone(r) ==
    /\ \A i \in 1..Len(r.calls) :
         (r.calls[i].kind = "llm_servers" /\ r.calls[i].answered)
            => LET selected == measure(config.measureFn,
                                       selectRelevantServers(config.measureFn, config.servers,
                                                             r.calls[i].reply))
               IN  (selected.err = "" /\ ~selected.null) => r.relevantServers = selected.val
    /\ r.toolInvocations
         = [i \in 1..Len(OwnInvocations(r)) |->
              [server |-> OwnInvocations(r)[i].server, tool |-> OwnInvocations(r)[i].tool,
               parameters |-> OwnInvocations(r)[i].arg,
               result |-> RecordedAlone(OwnInvocations(r)[i])]]
    /\ r.toolResults = Accumulated(OwnInvocations(r), EmptyObj)
    /\ (r.calls # <<>> /\ r.calls[Len(r.calls)].kind = "llm_final"
            /\ r.calls[Len(r.calls)].answered)
         => /\ r.pc \in {"returned", "threw"}
            /\ r.runResult = AloneReturns(r.calls[Len(r.calls)].reply)

\* the extractor state and the updates of the streaming call r are those of
\* the text it received so far
StreamAsAlone(r) ==
    LET st == processChars(WithOut(NoStream.ext), SubSeq(r.sinput, 1, r.spos))
    IN  IF r.spc = "ended"
        THEN /\ r.updates = st.out \o flushAtEnd(WithOut(ExtOf(st))).out
             /\ r.ext = ExtOf(flushAtEnd(WithOut(ExtOf(st))))
        ELSE /\ r.updates = st.out
             /\ r.ext = ExtOf(st)
             /\ r.fullResponse = SubSeq(r.sinput, 1, r.spos)

\* C30: two runs on one shared Agent are independent: under every
\* interleaving of their steps the configuration is never modified, and the
\* selected servers, tool results, invocation records and returned record of
\* each run, and the extractor state and updates of each streaming call, are
\* those of the run or call executing alone with the same answers.
C30_ConcurrentRunsIndependent ==
    /\ [](/\ agent = "constructed" => AsAlone(Run) /\ AsAlone(otherRun)
          /\ spc # "off" => StreamAsAlone(StreamRun) /\ StreamAsAlone(otherStream))
    /\ [][config' = config]_vars

\* two runs that made their calls in turn returned different records from
\* different tool results
C30_Witness ==
    /\ pc = "returned"
    /\ otherRun.pc = "returned"
    /\ Len(toolInvocations) = 1
    /\ Len(otherRun.toolInvocations) = 1
    /\ toolInvocations[1].result # otherRun.toolInvocations[1].result
    /\ runResult # otherRun.runResult
    /\ AsAlone(Run)
    /\ AsAlone(otherRun)

----------------------------------------------------------------------------
(***************************************************************************)
(* fetchWithPayment: one request, paid for once when the server asks.      *)
(***************************************************************************)

\* the places fetchWithPayment is called from
Sites ==
    {"discoverTools", "invokeTool", "resolveMCPInputFields", "selectRelevantServers",
     "selectRelevantTools", "generateToolParameters", "generateResponse"}

\* a variant in which the capability calls hand the wallet on as well
handsWallet_capabilityCalls(site_) ==
    site_ \in {"resolveMCPInputFields", "generateResponse", "discoverTools", "invokeTool"}

\* the calls that hand this.config.solanaWallet and the progress callback on
handsWallet(site_) == site_ \in {"resolveMCPInputFields", "generateResponse"}

\* the wallet fetchWithPayment receives
walletGiven == IF handsWallet(site) THEN solanaWallet ELSE "none"

\* the configured wallet: none, one whose privateKey decodes, one whose
\* privateKey does not
Wallets == {"none", "wallet", "badKey"}

maxRetries == 1

\* what fetch settles with: a Response with its status and, for a 402, a body
\* that holds {amount, recipient} or does not, or a rejection
Rejected == [status |-> 0, info |-> "none"]

Responses ==
    {[status |-> 200, info |-> "none"], [status |-> 500, info |-> "none"],
     [status |-> 402, info |-> "payment"], [status |-> 402, info |-> "garbled"], Rejected}

\* res.ok
IsOk(res) == res.status \in 200..299

\* the condition under which a response that is not ok ends the call
unpayable_noBudget(res, retries_, wallet) == res.status # 402 \/ wallet = "none"

unpayable(res, retries_, wallet) ==
    res.status # 402 \/ retries_ >= maxRetries \/ wallet = "none"

\* progressCallback?.({stage: "payment", ...})
Notified(message) == IF handsWallet(site) THEN Append(notices, message) ELSE notices

InitPayment ==
    /\ fpc = "fetching"
    /\ site \in Sites
    /\ solanaWallet \in Wallets
    /\ fmeasure \in {"measure", "mockMeasure"}
    /\ retries = 0
    /\ responses = <<>>
    /\ transfers = <<>>
    /\ notices = <<>>
    /\ CodecIdle
    /\ StreamIdle
    /\ AgentIdle

\* fetch(url, options) settled: return, throw, or prepare the transfer
Fetched ==
    /\ fpc = "fetching"
    /\ \E res \in Responses :
         /\ responses' = Append(responses, res)
         /\ IF res = Rejected
            THEN fpc' = "threw" /\ UNCHANGED notices
            ELSE IF IsOk(res)
            THEN fpc' = "returned" /\ UNCHANGED notices
            ELSE IF unpayable(res, retries, walletGiven)
            THEN fpc' = "threw" /\ UNCHANGED notices
            ELSE IF res.info = "garbled"
            THEN fpc' = "threw" /\ UNCHANGED notices
            ELSE /\ notices' = Notified("Processing payment")
                 /\ fpc' = IF walletGiven = "badKey" THEN "threw" ELSE "sending"
    /\ UNCHANGED <<site, solanaWallet, fmeasure, retries, transfers>>
    /\ UNCHANGED codecVars
    /\ UNCHANGED streamVars
    /\ UNCHANGED agentVars

\* connection.sendTransaction settled
Sent ==
    /\ fpc = "sending"
    /\ \E accepted \in BOOLEAN :
         /\ transfers' = Append(transfers, accepted)
         /\ fpc' = IF ~accepted /\ fmeasure = "mockMeasure" THEN "threw" ELSE "confirming"
    /\ UNCHANGED <<site, solanaWallet, fmeasure, retries, responses, notices>>
    /\ UNCHANGED codecVars
    /\ UNCHANGED streamVars
    /\ UNCHANGED agentVars

\* connection.confirmTransaction settled; the request is made again
Confirmed ==
    /\ fpc = "confirming"
    /\ \E confirmed \in BOOLEAN :
         IF ~(confirmed /\ transfers[Len(transfers)]) /\ fmeasure = "mockMeasure"
         THEN /\ fpc' = "threw"
              /\ UNCHANGED <<retries, notices>>
         ELSE /\ notices' = Notified("Payment confirmed")
              /\ retries' = retries + 1
              /\ fpc' = "fetching"
    /\ UNCHANGED <<site, solanaWallet, fmeasure, responses, transfers>>
    /\ UNCHANGED codecVars
    /\ UNCHANGED streamVars
    /\ UNCHANGED agentVars

NextPayment == Fetched \/ Sent \/ Confirmed

SpecPayment == InitPayment /\ [][NextPayment]_vars

\* C31: when a capability provider answers a discovery or invocation request
\* with 402 and a wallet is configured, the payment is made and the request
\* is made again: the call does not fail on that answer.
C31_GatedCapabilityCallsPay ==
    (/\ site \in {"discoverTools", "invokeTool"}
     /\ solanaWallet = "wallet"
     /\ responses # <<>>
     /\ responses[1] = [status |-> 402, info |-> "payment"])
        => (fpc = "sending" \/ transfers # <<>>)

\* the i-th response is not ok and cannot be paid for
NotPayable(i) ==
    /\ ~IsOk(responses[i])
    /\ \/ responses[i].status # 402
       \/ walletGiven = "none"
       \/ i > 1

\* C37: in one call of fetchWithPayment at most one payment is sent and at
\* most two requests are made; a payment is sent only after a 402 response
\* and only with a wallet; a response that is not ok and not payable (status
\* other than 402, no wallet, or a 402 after the payment) ends the call with
\* an error and no further request; a Response is returned only if it is ok.
C37_PaymentRetryBudget ==
    /\ Len(transfers) <= 1
    /\ Len(responses) <= 2
    /\ (transfers # <<>> \/ fpc \in {"sending", "confirming"})
         => /\ responses[1].status = 402
            /\ walletGiven # "none"
    /\ \A i \in 1..Len(responses) :
         NotPayable(i) => i = Len(responses) /\ fpc = "threw"
    /\ fpc = "returned" => IsOk(responses[Len(responses)])

\* the first request was answered 402, the payment was sent and confirmed,
\* and the second request was answered ok
C37_Witness ==
    /\ fpc = "returned"
    /\ Len(responses) = 2
    /\ responses[1].status = 402
    /\ transfers = <<TRUE>>
    /\ retries = 1

\* the events of one stage, in the order the callback received them
EventsOf(stage) == SelectSeq(progress, LAMBDA e : e.stage = stage)

\* the capability invocations made so far, those of field resolution included
Invocations == SelectSeq(calls, LAMBDA c : c.kind = "invoke")

\* the k-th invocation has its own tool_invocation event
Announced(invocations) ==
    /\ Len(invocations) <= Len(EventsOf("tool_invocation"))
    /\ \A k \in 1..Len(invocations) :
         EventsOf("tool_invocation")[k].field
            = invocations[k].server \o <<".">> \o invocations[k].tool

\* no tool_discovery event without a selected server, one response_generation
\* event before the final generation call, field updates only after it
GenerationAnnounced ==
    /\ EventsOf("tool_discovery") # <<>> => relevantServers # <<>>
    /\ Len(EventsOf("response_generation")) <= 1
    /\ ToolPhaseOver => Len(EventsOf("response_generation")) = 1
    /\ \A i \in 1..Len(progress) :
         progress[i].stage = "streaming"
            => \E j \in 1..(i - 1) : progress[j].stage = "response_generation"

\* C32: in every run with a progress callback, each capability invocation is
\* preceded by its own tool_invocation event, no tool_discovery event is
\* emitted when no server was selected, exactly one response_generation event
\* is emitted before the final generation call, and every field update is
\* delivered after that event.
C32_ProgressOrdering ==
    config.streaming => Announced(Invocations) /\ GenerationAnnounced

\* what an update may carry: one whitespace character, or a fragment that is
\* not empty and holds no space, no newline and no '<'
Granular(value) ==
    \/ value \in {<<" ">>, <<"\n">>}
    \/ /\ value # <<>>
       /\ \A i \in 1..Len(value) : value[i] \notin {" ", "\n", "<"}

\* a step that reads one whitespace character inside an open tag hands on the
\* pending word, if there is one, and then the character by itself
WhitespaceOnItsOwn ==
    (/\ spos' = spos + 1
     /\ sinput[spos'] \in {" ", "\n"}
     /\ ext.tagStack # <<>>
     /\ ~ext.insideTag)
        => updates' = updates
                \o (IF ext.wordBuffer # <<>>
                    THEN <<Update(Join(ext.tagStack, <<"_">>), ext.wordBuffer)>> ELSE <<>>)
                \o <<Update(Join(ext.tagStack, <<"_">>), <<sinput[spos']>>)>>

OneByOne(text) == processText(WithOut(NoStream.ext), text, 1)

\* C38: however the response text is split into consecutive chunks, the
\* extractor emits the same sequence of (field, value) updates, those of the
\* text delivered character by character, and the full response text is the
\* concatenation of all chunks, the characters outside any tag included.
C38_ChunkBoundaryInvariance ==
    spc # "off"
        => /\ fullResponse = SubSeq(sinput, 1, spos)
           /\ updates = IF spc = "ended"
                        THEN flushAtEnd(OneByOne(SubSeq(sinput, 1, spos))).out
                        ELSE OneByOne(SubSeq(sinput, 1, spos)).out

\* a stream that began outside any tag ended: the text before the tag is in
\* the full response and in no update
C38_Witness ==
    /\ spc = "ended"
    /\ sinput # <<>>
    /\ sinput[1] = "h"
    /\ fullResponse = sinput
    /\ Len(updates) >= 2
    /\ \A i \in 1..Len(updates) : "h" \notin {updates[i].value[j] : j \in 1..Len(updates[i].value)}

\* the tags of a well-nested document that are open after its first n
\* characters: opened by a complete opening tag and not yet closed by a
\* complete closing tag, outermost first
RECURSIVE OpenTags(_, _, _)
OpenTags(nodes, n, open) ==
    IF nodes = <<>> \/ n <= 0 THEN open
    ELSE LET node == Head(nodes)
         IN  IF node.k = "text"
             THEN OpenTags(Tail(nodes), n - Len(node.t), open)
             ELSE LET opening == Len(node.name) + 2
                      inner == Len(Render(node.kids))
                      closing == Len(node.name) + 3
                  IN  IF n < opening THEN open
                      ELSE IF n <= opening + inner
                      THEN OpenTags(node.kids, n - opening, Append(open, node.name))
                      ELSE IF n < opening + inner + closing THEN Append(open, node.name)
                      ELSE OpenTags(Tail(nodes), n - opening - inner - closing, open)

\* a step that reads the '>' of a closing tag while tagStack is empty leaves
\* it empty
ClosingOnEmptyStack ==
    (/\ spos' = spos + 1
     /\ sinput[spos'] = ">"
     /\ ext.insideTag
     /\ startsWith(ext.currentTagName, "/")
     /\ ext.tagStack = <<>>)
        => ext'.tagStack = <<>>

\* C39: for a text whose tags are well nested tagStack is at each point the
\* list of the currently open tags, and is empty at the end of the stream; a
\* closing tag that arrives while tagStack is empty leaves it empty; tagStack
\* never holds an empty name or a name starting with '/'; a pending word is
\* non-empty only while tagStack is non-empty and no tag is being assembled.
C39_TagStackTracksNesting ==
    /\ [](spc # "off"
            => /\ WellNested(sdoc)
                    => /\ ext.tagStack = OpenTags(sdoc, spos, <<>>)
                       /\ spc = "ended" => ext.tagStack = <<>>
               /\ \A i \in 1..Len(ext.tagStack) :
                    ext.tagStack[i] # <<>> /\ ext.tagStack[i][1] # "/"
               /\ ext.wordBuffer # <<>> => ext.tagStack # <<>> /\ ~ext.insideTag)
    /\ [][ClosingOnEmptyStack]_vars

\* the description of the i-th input field carries a resolution directive: it
\* begins with "mcp:" and names an address
HasDirective(i) ==
    /\ startsWithText(config.inputFormat.shape[i].description, S_mcp_)
    /\ urlMatch(config.inputFormat.shape[i].description).found

\* the invocations made to resolve the input field key
ResolverInvocations(key) ==
    SelectSeq(calls, LAMBDA c : c.kind = "invoke" /\ c.server = Resolver(key))

\* C34: an input field whose description carries no resolution directive is
\* never changed by field resolution; for a field with a directive at most
\* one capability is invoked, after which the field holds exactly the raw
\* result of that invocation.
C34_FieldResolutionConfined ==
    validatedInput.k = "map"
        => \A i \in 1..Len(config.inputFormat.shape) :
             LET key == config.inputFormat.shape[i].key
             IN  IF ~HasDirective(i)
                 THEN Prop(validatedInput, key)
                         = Prop(ZodParse(config.inputFormat, config.input).val, key)
                 ELSE /\ Len(ResolverInvocations(key)) <= 1
                      /\ \A k \in 1..Len(ResolverInvocations(key)) :
                           (ResolverInvocations(key)[k].answered
                               /\ ResolverInvocations(key)[k].reply.ok)
                              => Prop(validatedInput, key)
                                    = ResolverInvocations(key)[k].reply.result

\* the run returned after the directive field was replaced by the result of
\* the one invocation made for it, the plain field after it left as given
C34_Witness ==
    /\ pc = "returned"
    /\ config.inputFormat = TwoFieldFormat
    /\ Len(ResolverInvocations(K_q)) = 1
    /\ ResolverInvocations(K_q)[1].reply.ok
    /\ Prop(validatedInput, K_q) = Str(<<"r">>)
    /\ Prop(validatedInput, K_a) = Str(<<"y">>)

\* s holds elements of t, in the order of t, none of them twice
IsSubsequence(s, t) ==
    \E f \in [1..Len(s) -> 1..Len(t)] :
        /\ \A i, j \in 1..Len(s) : i < j => f[i] < f[j]
        /\ \A i \in 1..Len(s) : t[f[i]] = s[i]

\* the discovery calls of the tool phase, and the servers they went to
Discoveries ==
    SelectSeq(calls, LAMBDA c : c.kind = "discover" /\ c.server # Resolver(K_q))

ProvidersUsed == [i \in 1..Len(Discoveries) |-> Discoveries[i].server]

\* the tools invoked on a server, in invocation order
InvokedOn(server) ==
    LET on == SelectSeq(calls, LAMBDA c : c.kind = "invoke" /\ c.server = server)
    IN  [i \in 1..Len(on) |-> on[i].tool]

\* C35: whatever names the generation returns, the servers used are configured
\* servers, in configured order and none of them twice, and the tools invoked
\* on a server are tools it discovered, in discovery order, each invoked at
\* most once per run.
C35_SelectionsFiltered ==
    /\ IsSubsequence(relevantServers, config.servers)
    /\ IsSubsequence(ProvidersUsed, config.servers)
    /\ \A i \in 1..Len(config.servers) :
         LET found == SelectSeq(Discoveries, LAMBDA c : c.server = config.servers[i])
         IN  IF found # <<>> /\ found[1].answered /\ found[1].reply.ok
             THEN IsSubsequence(InvokedOn(config.servers[i]), found[1].reply.tools)
             ELSE InvokedOn(config.servers[i]) = <<>>

\* the generation named the servers and the tools out of order, twice, and
\* with unknown names; the run used both servers and invoked two tools on
\* the first, in discovery order
C35_Witness ==
    /\ pc = "returned"
    /\ \E i \in 1..Len(calls) :
         calls[i].kind = "llm_servers" /\ calls[i].reply.content = ScrambledServerNames
    /\ \E i \in 1..Len(calls) :
         calls[i].kind = "llm_tools" /\ calls[i].reply.content = ScrambledToolNames
    /\ ProvidersUsed = <<Server1, Server2>>
    /\ InvokedOn(Server1) = <<Tool1, Tool2>>

----------------------------------------------------------------------------
(* Reconciliation: generateResponse on a response that is the encoding of  *)
(* a record of the output shape                                            *)

\* an output shape whose only top-level field is a nested record
SoleRecordShape == ZObject(<<Field(S_detail, ZObject(<<Field(K_b, ZString)>>))>>)

\* an output shape with a number beside a text
CountShape == ZObject(<<Field(S_answer, ZString), Field(K_a, ZNumber)>>)

ReconcileShapes == ShapesWithoutArrays \cup {SoleRecordShape, CountShape}

\* text leaves free of '<' and '>' that are no boolean or numeric literal
TextLeaves == {<<"x">>, <<"x", " ", "y">>, <<"x", " ">>}

NumberLeaves == {One, Num(TRUE, 1, <<>>)}

\* the values a schema admits, and the records a shape admits: a field whose
\* value is undefined is an absent key
RECURSIVE ValuesOf(_), RecordsOf(_)
ValuesOf(schema) ==
    CASE schema.t = "ZodString" -> {Str(s) : s \in TextLeaves}
      [] schema.t = "ZodBoolean" -> {Bool(TRUE), Bool(FALSE)}
      [] schema.t = "ZodNumber" -> NumberLeaves
      [] schema.t = "ZodEnum" -> {Str(schema.values[i]) : i \in 1..Len(schema.values)}
      [] schema.t = "ZodOptional" -> ValuesOf(schema.inner) \cup {Undef}
      [] schema.t = "ZodNullable" -> ValuesOf(schema.inner) \cup {Null}
      [] schema.t = "ZodObject" -> {Obj(m) : m \in RecordsOf(schema.shape)}
      [] OTHER -> {}

RecordsOf(shape) ==
    IF shape = <<>> THEN {<<>>}
    ELSE {IF v.k = "undef" THEN rest ELSE <<Entry(shape[1].key, v)>> \o rest :
              v \in ValuesOf(shape[1].schema), rest \in RecordsOf(Tail(shape))}

InitReconcile ==
    /\ cpc = "given"
    /\ \E shape \in ReconcileShapes :
           /\ config = [outputFormat |-> shape, servers |-> <<>>,
                        measureFn |-> "mockMeasure", streaming |-> FALSE,
                        input |-> EmptyObj,
                        inputFormat |-> [t |-> "ZodObject", shape |-> <<>>]]
           /\ cv \in ValuesOf(shape)
    /\ cxml = <<>>
    /\ cdec = Null
    /\ tname = <<>>
    /\ ttags = <<>>
    /\ agent = "off"
    /\ pc = "off"
    /\ relevantServers = <<>>
    /\ serverIndex = 0
    /\ tools = <<>>
    /\ relevantTools = <<>>
    /\ toolIndex = 0
    /\ parameters = Null
    /\ toolResults = EmptyObj
    /\ toolInvocations = <<>>
    /\ calls = <<>>
    /\ runResult = [err |-> "", null |-> TRUE, val |-> Null]
    /\ validatedInput = Null
    /\ fieldIndex = 0
    /\ progress = <<>>
    /\ otherRun = NoRun
    /\ StreamIdle
    /\ PaymentIdle

\* the generation response is objToXml(r), bare or inside one more root tag
Respond ==
    /\ cpc = "given"
    /\ \E wrapped \in BOOLEAN :
           cxml' = IF wrapped THEN Tag(S_response, objToXml(cv, <<>>))
                   ELSE objToXml(cv, <<>>)
    /\ cpc' = "responded"
    /\ UNCHANGED <<cv, cdec, tname, ttags>>
    /\ UNCHANGED streamVars
    /\ UNCHANGED agentVars
    /\ UNCHANGED payVars

\* generateResponse parses, unwraps and reconciles the response
ReconcileResponse ==
    /\ cpc = "responded"
    /\ cdec' = generateResponse(config.measureFn, config.streaming,
                                config.outputFormat, TextReply(cxml))
    /\ cpc' = "reconciled"
    /\ UNCHANGED <<cv, cxml, tname, ttags>>
    /\ UNCHANGED streamVars
    /\ UNCHANGED agentVars
    /\ UNCHANGED payVars

NextReconcile == Respond \/ ReconcileResponse

SpecReconcile == InitReconcile /\ [][NextReconcile]_vars

\* C36: for every output shape and every record r conforming to it, with text
\* leaves free of '<' and '>' and of boolean and numeric literals, a generation
\* response that is objToXml(r), bare or inside one extra root tag, is
\* reconciled to r itself, also when the only top-level field of the shape is
\* a nested record.
C36_ReconcileRoundTrip ==
    cpc = "reconciled" => cdec = Ok(cv)

====
